---- MODULE Spec2Model ----
(***************************************************************************)
(* A model of the lexicon PDF search service.                              *)
(*                                                                         *)
(*   Part I   the response cache of src/cache.c: a hash table of chained   *)
(*            entries threaded on a doubly linked recency list, with the   *)
(*            entries living at the addresses of a modelled heap.          *)
(*   Part II  the indexer of src/src/cli.c: the walker (process_pdfs,      *)
(*            walk_dir_callback) and its document tasks                    *)
(*            (process_pdf_task).                                          *)
(*   Part III the handlers of src/src/routes.c with the summaries of       *)
(*            src/src/ai.c.                                                *)
(*   Part IV  the raster adapter of src/src/pdf.c.                         *)
(*   Part V   the text cleaner of src/src/pdf_preprocess.c.                *)
(*   Part VI  the connection pool of src/src/database.c.                   *)
(*   Part VII the page tasks of src/cli.c.                                 *)
(***************************************************************************)
EXTENDS Integers, Sequences, FiniteSets, TLC

(***************************************************************************)
(* Bounds of the model.                                                    *)
(***************************************************************************)
\* capacity argument of response_cache_create
Capacity == 2
\* default_ttl argument of response_cache_create, in seconds
DefaultTtl == 2
\* the clock time(nullptr) runs over 0..MaxTime
MaxTime == 2
\* threads calling into the one cache: 1..NumThreads
NumThreads == 2
\* PDF files under the directory the indexer walks
NumDocs == 2
\* threads of the indexer's pool that take tasks in a run
NumWorkers == 2
\* the most pages a PDF file of the directory has
MaxPages == 2
\* worker threads of the server that handle requests at the same time
NumHandlers == 2
\* search queries the clients send
NumQueries == 2
\* requests a run of the server answers
MaxRequests == 2
\* pages of the long file of the library
LibraryPages == 101
\* bytes of a file name
NameBytes == 9
\* calls of render_page_to_buffer a thread makes
MaxRenders == 2
\* pieces of a text given to pdf_text_clean
MaxPieces == 3
\* bytes of the long page
LongPage == 2200
\* offset of the '.' of a dotted page
DotOffset == 2000
\* lines after the header of a reference block
ReferenceLines == 9
\* NUM_WORKERS of the server library: the size of the connections array
NUM_WORKERS == 3
\* addresses pgconn_create may return
NumConnAddrs == 4
\* elements past the end of connections that a run reads and survives
MaxStray == 2
\* pages of the document whose pages are submitted one task each
MaxTaskPages == 3

(***************************************************************************)
(* Program constants.                                                      *)
(***************************************************************************)
CACHE_KEY_MAX_LEN == 256
\* 2166136261 = 0x811C9DC5 as two 16-bit halves
FNV_OFFSET_HI == 33052
FNV_OFFSET_LO == 40389
\* 16777619 = 2^24 + 403
FNV_PRIME_LOW == 403

NULL == 0
\* <stdlib.h>, the argument of exit() in build_index_handler
EXIT_SUCCESS == 0
\* 30 * 1024: the most bytes of context (routes.c line 352)
MAX_CONTEXT_SIZE == 30720
\* the rows that may add to the context (routes.c line 368)
CONTEXT_RESULTS == 15
\* LIMIT 100 of the search statement
SEARCH_LIMIT == 100
\* LEFT(text, 500) and LEFT(text, 2000) of the search statement
SNIPPET_CHARS == 500
EXTENDED_SNIPPET_CHARS == 2000
\* text[2046] = 0 in process_all_pages
TOKENIZER_LIMIT == 2046
\* the status codes of the server library
StatusOK == 200
StatusBadRequest == 400
StatusNotFound == 404
StatusInternalServerError == 500
\* the largest int
INT_MAX == 2147483647

Threads == 1..NumThreads

(***************************************************************************)
(* Keys are NUL-terminated C strings.  The state names a key by a short    *)
(* name; Bytes gives the bytes before its terminator (all below 128, so    *)
(* the plain-char to uint32_t conversion of hash_key does not sign-        *)
(* extend).  Distinct names have distinct bytes, so that strcmp() == 0 is  *)
(* equality of names.                                                      *)
(***************************************************************************)
KeyA == "a"
Key8 == "8"
KeyB == "b"
KeyEmpty == ""
Key255 == "x255"
Key256 == "x256"
\* "a" and "8" share a bucket for 5 and for 7 buckets; "b" has one of its own.
ShortKeys == {KeyA, Key8, KeyB}
\* The 256-byte key has the 255-byte key as its prefix.
LongKeys == {Key255, Key256, KeyEmpty}
AllKeys == ShortKeys \cup LongKeys

Bytes ==
    [k \in AllKeys |->
        CASE k = KeyA -> <<97>>
          [] k = Key8 -> <<56>>
          [] k = KeyB -> <<98>>
          [] k = KeyEmpty -> <<>>
          [] k = Key255 -> [i \in 1..(CACHE_KEY_MAX_LEN - 1) |-> 120]
          [] k = Key256 -> [i \in 1..CACHE_KEY_MAX_LEN |-> 120]]

\* strlen(key)
Strlen(key) == Len(Bytes[key])

\* Value buffers: byte sequences with an explicit length, zero bytes included.
Values == {<<0>>, <<7, 0>>}

\* ttl_override arguments: 0 selects the default.
Ttls == {0, 1}

Take(s, n) == IF Len(s) <= n THEN s ELSE SubSeq(s, 1, n)

(***************************************************************************)
(* hash_key: FNV-1a on 32 bits.  A hash is kept as <<hi, lo>>, two 16-bit  *)
(* halves, so that no intermediate product leaves the integers of TLC.     *)
(***************************************************************************)
RECURSIVE Xor(_, _)
Xor(a, b) ==
    IF a = 0 THEN b
    ELSE IF b = 0 THEN a
    ELSE (((a % 2) + (b % 2)) % 2) + 2 * Xor(a \div 2, b \div 2)

\* hash ^= (uint32_t)(*p): only the low byte changes.
HashXor(h, byte) == <<h[1], (h[2] \div 256) * 256 + Xor(h[2] % 256, byte)>>

\* hash *= 16777619u, modulo 2^32.
HashMul(h) ==
    LET p == h[2] * FNV_PRIME_LOW
    IN  << ((p \div 65536) + h[1] * FNV_PRIME_LOW + (h[2] % 256) * 256) % 65536,
           p % 65536 >>

\* The loop of hash_key over key[lo..hi], h being the hash of the bytes
\* before.  The bytes are consumed first to last; the range is split in
\* halves only to keep the evaluation shallow.
RECURSIVE HashFrom(_, _, _, _)
HashFrom(h, key, lo, hi) ==
    IF lo > hi THEN h
    ELSE IF lo = hi THEN HashMul(HashXor(h, key[lo]))
    ELSE LET mid == (lo + hi) \div 2
             left == HashFrom(h, key, lo, mid)
         IN  IF left[1] >= 0 THEN HashFrom(left, key, mid + 1, hi) ELSE left

hash_key(key) == HashFrom(<<FNV_OFFSET_HI, FNV_OFFSET_LO>>, key, 1, Len(key))

\* cache->bucket_count = cache->capacity * 2 + 1
bucket_count == Capacity * 2 + 1

\* hash_val % cache->bucket_count
HashMod(h, n) == ((h[1] % n) * (65536 % n) + h[2]) % n

\* The bucket of every key of the model, computed once.
BucketTable == [k \in AllKeys |-> HashMod(hash_key(Bytes[k]), bucket_count)]

bucket_idx(key) == BucketTable[key]

(***************************************************************************)
(* Memory.  Entries (cache_entry_t) live at the addresses EntryAddrs; NULL *)
(* is 0.  malloc hands out the lowest free address, or NULL when the       *)
(* allocation fails.  A value buffer is kept with the entry that owns it,  *)
(* as its bytes; value_len is the length the entry records for it.         *)
(***************************************************************************)
EntryAddrs == 1..(Capacity + 1)

\* An optional value: <<>> for none, <<x>> for x.
None == <<>>
Some(x) == <<x>>

\* The content of a freed entry.
FreedEntry ==
    [live |-> FALSE, key |-> KeyEmpty, value |-> <<>>, value_len |-> 0,
     expires_at |-> 0, prev |-> NULL, next |-> NULL, hash_next |-> NULL]

\* response_cache_create: *cache = {0}, calloc'ed buckets.
EmptyCache ==
    [ent |-> [a \in EntryAddrs |-> FreedEntry],
     buckets |-> [b \in 0..(bucket_count - 1) |-> NULL],
     head |-> NULL, tail |-> NULL, size |-> 0]

MallocEntry(c) ==
    IF \E a \in EntryAddrs : ~c.ent[a].live
    THEN CHOOSE a \in EntryAddrs :
            ~c.ent[a].live /\ \A b \in EntryAddrs : b < a => c.ent[b].live
    ELSE NULL

\* memcpy(dst, src, n) into a buffer of n bytes.
Memcpy(bytes, n) == SubSeq(bytes, 1, n)

(***************************************************************************)
(* The recency list.  c is the cache record, e an entry address.           *)
(***************************************************************************)
\* Variant: the entry behind the one removed keeps its prev, and the tail is
\* left as it is.
lru_remove_ForwardOnly(c, e) ==
    LET en == c.ent[e]
        c1 == IF en.prev # NULL
              THEN [c EXCEPT !.ent[en.prev].next = en.next]
              ELSE [c EXCEPT !.head = en.next]
    IN  [c1 EXCEPT !.ent[e].prev = NULL, !.ent[e].next = NULL]

lru_remove(c, e) ==
    LET en == c.ent[e]
        c1 == IF en.prev # NULL
              THEN [c EXCEPT !.ent[en.prev].next = en.next]
              ELSE [c EXCEPT !.head = en.next]
        c2 == IF en.next # NULL
              THEN [c1 EXCEPT !.ent[en.next].prev = en.prev]
              ELSE [c1 EXCEPT !.tail = en.prev]
    IN  [c2 EXCEPT !.ent[e].prev = NULL, !.ent[e].next = NULL]

lru_add_to_front(c, e) ==
    LET c1 == [c EXCEPT !.ent[e].next = c.head, !.ent[e].prev = NULL]
        c2 == IF c1.head # NULL THEN [c1 EXCEPT !.ent[c1.head].prev = e] ELSE c1
        c3 == [c2 EXCEPT !.head = e]
    IN  IF c3.tail = NULL THEN [c3 EXCEPT !.tail = e] ELSE c3

\* Variant: a use of an entry leaves the list as it is.
lru_move_to_front_Noop(c, e) == c

lru_move_to_front(c, e) ==
    IF c.head = e THEN c ELSE lru_add_to_front(lru_remove(c, e), e)

(***************************************************************************)
(* The hash chains.  A slot, a pointer to an entry pointer, is named by    *)
(* the entry whose hash_next it is, or by NULL for the bucket head itself. *)
(***************************************************************************)
SlotGet(c, b, p) == IF p = NULL THEN c.buckets[b] ELSE c.ent[p].hash_next

SlotSet(c, b, p, v) ==
    IF p = NULL THEN [c EXCEPT !.buckets[b] = v] ELSE [c EXCEPT !.ent[p].hash_next = v]

\* while (*slot && *slot != victim) slot = &(*slot)->hash_next;
RECURSIVE SlotOfEntry(_, _, _, _)
SlotOfEntry(c, b, p, victim) ==
    IF SlotGet(c, b, p) = NULL \/ SlotGet(c, b, p) = victim THEN p
    ELSE SlotOfEntry(c, b, SlotGet(c, b, p), victim)

\* while (*slot) { if (strcmp((*slot)->key, key) == 0) break; slot = ...; }
RECURSIVE SlotOfKey(_, _, _, _)
SlotOfKey(c, b, p, key) ==
    IF SlotGet(c, b, p) = NULL \/ c.ent[SlotGet(c, b, p)].key = key THEN p
    ELSE SlotOfKey(c, b, SlotGet(c, b, p), key)

\* The lookup loop of get and set: the entry of the chain from e on whose key
\* compares equal, or NULL.
RECURSIVE FindInChain(_, _, _)
FindInChain(c, e, key) ==
    IF e = NULL THEN NULL
    ELSE IF c.ent[e].key = key THEN e
    ELSE FindInChain(c, c.ent[e].hash_next, key)

Lookup(c, key) == FindInChain(c, c.buckets[bucket_idx(key)], key)

\* cache_entry_free: free(entry->value); free(entry);
cache_entry_free(c, e) == [c EXCEPT !.ent[e] = FreedEntry]

evict_lru(c) ==
    IF c.tail = NULL THEN c
    ELSE LET victim == c.tail
             b == bucket_idx(c.ent[victim].key)
             slot == SlotOfEntry(c, b, NULL, victim)
             c1 == IF SlotGet(c, b, slot) # NULL
                   THEN SlotSet(c, b, slot, c.ent[victim].hash_next)
                   ELSE c
             c2 == cache_entry_free(lru_remove(c1, victim), victim)
         IN  [c2 EXCEPT !.size = c2.size - 1]

\* The critical section of response_cache_invalidate.
invalidate(c, key) ==
    LET b == bucket_idx(key)
        slot == SlotOfKey(c, b, NULL, key)
        victim == SlotGet(c, b, slot)
    IN  IF victim = NULL THEN c
        ELSE LET c1 == SlotSet(c, b, slot, c.ent[victim].hash_next)
                 c2 == cache_entry_free(lru_remove(c1, victim), victim)
             IN  [c2 EXCEPT !.size = c2.size - 1]

\* The loop of response_cache_clear from entry e on: next is read before the
\* entry is freed.
RECURSIVE FreeList(_, _)
FreeList(c, e) ==
    IF e = NULL THEN c ELSE FreeList(cache_entry_free(c, e), c.ent[e].next)

clear(c) ==
    [FreeList(c, c.head) EXCEPT !.buckets = [b \in 0..(bucket_count - 1) |-> NULL],
                                !.head = NULL, !.tail = NULL, !.size = 0]

(***************************************************************************)
(* What the cache holds, as its callers could observe it: the entries from *)
(* head to tail, each with its key, its value bytes and its expiry.        *)
(***************************************************************************)
ValueOf(c, e) == Memcpy(c.ent[e].value, c.ent[e].value_len)

RECURSIVE ViewFrom(_, _, _)
ViewFrom(c, e, fuel) ==
    IF e = NULL \/ fuel = 0 THEN <<>>
    ELSE <<[key |-> c.ent[e].key, val |-> ValueOf(c, e), exp |-> c.ent[e].expires_at]>>
         \o ViewFrom(c, c.ent[e].next, fuel - 1)

ListView(c) == ViewFrom(c, c.head, Capacity + 2)

KeysOf(view) == [i \in 1..Len(view) |-> view[i].key]
KeySet(view) == {view[i].key : i \in 1..Len(view)}

(***************************************************************************)
(* response_cache_set and response_cache_get as functions of the cache,    *)
(* the arguments, the clock and oom: whether an allocation of the call     *)
(* fails.  In the insertion a failure of the second malloc frees the entry *)
(* the first one gave, so it leaves what a failure of the first leaves.    *)
(***************************************************************************)
\* Variant: the length test lets a key of CACHE_KEY_MAX_LEN bytes through.
KeyTooLong_OffByOne(key) == Strlen(key) > CACHE_KEY_MAX_LEN

\* if (key_len >= CACHE_KEY_MAX_LEN) return false;
KeyTooLong(key) == Strlen(key) >= CACHE_KEY_MAX_LEN

\* strncpy(entry->key, key, CACHE_KEY_MAX_LEN - 1) and the terminator after it
StrncpyTable ==
    [k \in AllKeys |->
        CHOOSE n \in AllKeys : Bytes[n] = Take(Bytes[k], CACHE_KEY_MAX_LEN - 1)]

Strncpy(key) == StrncpyTable[key]

\* ttl_override > 0 ? ttl_override : cache->default_ttl
TtlOf(ttl_override) == IF ttl_override > 0 THEN ttl_override ELSE DefaultTtl

\* Variant: eviction starts one entry late.
EvictIfFull_OffByOne(c) == IF c.size > Capacity THEN evict_lru(c) ELSE c

\* if (cache->size >= cache->capacity) evict_lru(cache);
EvictIfFull(c) == IF c.size >= Capacity THEN evict_lru(c) ELSE c

\* Variant: an update keeps the expiry time of the entry.
SetExisting_KeepExpiry(c, e, value, ttl, tnow, oom) ==
    IF oom THEN [ok |-> FALSE, path |-> "update", c |-> c]
    ELSE LET c1 == [c EXCEPT !.ent[e].value = Memcpy(value, Len(value)),
                             !.ent[e].value_len = Len(value)]
         IN  [ok |-> TRUE, path |-> "update", c |-> lru_move_to_front(c1, e)]

\* The update of an existing entry, lines 217-236.
SetExisting(c, e, value, ttl, tnow, oom) ==
    IF oom THEN [ok |-> FALSE, path |-> "update", c |-> c]
    ELSE LET c1 == [c EXCEPT !.ent[e].value = Memcpy(value, Len(value)),
                             !.ent[e].value_len = Len(value),
                             !.ent[e].expires_at = tnow + TtlOf(ttl)]
         IN  [ok |-> TRUE, path |-> "update", c |-> lru_move_to_front(c1, e)]

\* The insertion of a new entry, lines 241-279.
SetNew(c, key, value, ttl, tnow, oom) ==
    LET c0 == EvictIfFull(c)
        path == IF c0 = c THEN "insert" ELSE "evict"
        e == IF oom THEN NULL ELSE MallocEntry(c0)
        b == bucket_idx(key)
    IN  IF e = NULL THEN [ok |-> FALSE, path |-> path, c |-> c0]
        ELSE LET c1 == [c0 EXCEPT !.ent[e] =
                            [live |-> TRUE, key |-> Strncpy(key),
                             value |-> Memcpy(value, Len(value)),
                             value_len |-> Len(value),
                             expires_at |-> tnow + TtlOf(ttl),
                             prev |-> NULL, next |-> NULL,
                             hash_next |-> c0.buckets[b]],
                         !.buckets[b] = e]
                 c2 == lru_add_to_front(c1, e)
             IN  [ok |-> TRUE, path |-> path, c |-> [c2 EXCEPT !.size = c2.size + 1]]

response_cache_set(c, key, value, ttl, tnow, oom) ==
    IF Strlen(key) = 0 THEN [ok |-> FALSE, path |-> "reject", c |-> c]
    ELSE IF KeyTooLong(key) THEN [ok |-> FALSE, path |-> "reject", c |-> c]
    ELSE LET existing == Lookup(c, key)
         IN  IF existing # NULL THEN SetExisting(c, existing, value, ttl, tnow, oom)
             ELSE SetNew(c, key, value, ttl, tnow, oom)

\* Variant: an entry is still served at the second it expires.
Expired_Late(c, e, tnow) == tnow > c.ent[e].expires_at

\* if (now >= entry->expires_at)
Expired(c, e, tnow) == tnow >= c.ent[e].expires_at

\* Variant: the copy stops at the first zero byte, as strdup would.
RECURSIVE UpToNul(_)
UpToNul(bytes) ==
    IF bytes = <<>> \/ Head(bytes) = 0 THEN <<>>
    ELSE <<Head(bytes)>> \o UpToNul(Tail(bytes))

CopyOut_Strdup(c, e) == UpToNul(c.ent[e].value)

\* The buffer get hands to its caller: malloc(entry->value_len) and memcpy.
CopyOut(c, e) == Memcpy(c.ent[e].value, c.ent[e].value_len)

\* The critical section of response_cache_get.  res is "miss" (no entry),
\* "expired" (the lock is released and invalidate is still to be called),
\* "oom" or "hit".
response_cache_get(c, key, tnow, oom) ==
    LET e == Lookup(c, key)
    IN  IF e = NULL THEN [res |-> "miss", buf |-> None, c |-> c]
        ELSE IF Expired(c, e, tnow) THEN [res |-> "expired", buf |-> None, c |-> c]
        ELSE IF oom THEN [res |-> "oom", buf |-> None, c |-> c]
        ELSE [res |-> "hit", buf |-> Some(CopyOut(c, e)), c |-> lru_move_to_front(c, e)]

(***************************************************************************)
(* The reference cache the behaviour is compared with: a recency-ordered   *)
(* sequence of [key, val, exp] that loses every entry at the instant it    *)
(* expires.  It is void in a run whose calls overlap.                      *)
(***************************************************************************)
VOID == [void |-> TRUE, q |-> <<>>]
Ref(q) == [void |-> FALSE, q |-> q]

SeqWithout(q, k) == SelectSeq(q, LAMBDA x : x.key # k)

RefHas(r, k) == \E i \in 1..Len(r.q) : r.q[i].key = k
RefAt(r, k) == r.q[CHOOSE i \in 1..Len(r.q) : r.q[i].key = k]

RefSet(r, k, v, ttl, tnow) ==
    IF Strlen(k) = 0 \/ Strlen(k) > CACHE_KEY_MAX_LEN - 1 THEN r
    ELSE LET rest == IF RefHas(r, k) THEN SeqWithout(r.q, k)
                     ELSE IF Len(r.q) >= Capacity THEN SubSeq(r.q, 1, Capacity - 1)
                     ELSE r.q
         IN  Ref(<<[key |-> k, val |-> v, exp |-> tnow + TtlOf(ttl)]>> \o rest)

RefGet(r, k) ==
    IF RefHas(r, k) THEN Ref(<<RefAt(r, k)>> \o SeqWithout(r.q, k)) ELSE r

RefInvalidate(r, k) == Ref(SeqWithout(r.q, k))

RefPurge(r, tnow) == Ref(SelectSeq(r.q, LAMBDA x : tnow < x.exp))

\* After a call that failed for want of memory the comparison starts again
\* from what the cache holds unexpired.
RefSync(c, tnow) == RefPurge(Ref(ListView(c)), tnow)

\* What a get of k returns in the reference cache.
RefResult(r, k) ==
    [void |-> FALSE, val |-> IF RefHas(r, k) THEN Some(RefAt(r, k).val) ELSE None]
NoRefResult == [void |-> TRUE, val |-> None]

(***************************************************************************)
(* State of the cache and of its callers.                                  *)
(***************************************************************************)
VARIABLES
    keys,      \* the keys the callers of this run use
    now,       \* time(nullptr)
    cache,     \* the response_cache_t and its entries
    pc,        \* per thread: "idle", or "get_expired" between the unlock of
               \* line 169 and the invalidate of line 170
    arg,       \* per thread: the key of the call in progress
    last,      \* the call that completed last, with what it returned
    recency,   \* the stored keys, most recent successful get-hit or set first
    expect,    \* per key: the value and expiry of the last completed set that no
               \* invalidate, clear, eviction or expiry has undone since
    ref        \* the reference cache

cvars == <<keys, now, cache, pc, arg, last, recency, expect, ref>>

(***************************************************************************)
(* State of the indexer: the index command (build_index_handler), its      *)
(* process_pdfs on the main thread, the pool's workers running             *)
(* process_pdf_task, the storage handles, and the files and pages tables   *)
(* as the database holds them.                                             *)
(***************************************************************************)
VARIABLES
    dryrun,     \* the dryrun argument of process_pdfs
    mpc,        \* where process_pdfs is; "off" when the indexer does not run
    success,    \* _Atomic bool success
    main_conn,  \* "null", "open" or "destroyed"
    main_tx,    \* the transaction of main_conn: "none", "open", or the
                \* statement that ended it, "COMMIT" or "ROLLBACK"
    walk,       \* the directory entry dir_walk comes to next
    queue,      \* the tasks submitted to the pool and not started
    worker,     \* per worker: the document of its task, or NULL
    task,       \* per document: the state of its process_pdf_task, with
                \* log, the outcomes of the pages it has come to, and
                \* end_cmd, the statement its defer issued first
    files,      \* per document: its files row, "absent", "pending" (written
                \* in a transaction still open) or "stored"
    inserted_in,\* per document: main_tx as it was at the insert of its row
    retval,     \* what process_pdfs has returned: None before the return
    history,    \* what the database held when the run began: "fresh",
                \* "same" (a run over this directory) or "longer" (a run when
                \* every file had MaxPages pages)
    db,         \* the id and num_pages columns of files, the sequence of
                \* files.id, and the rows of pages
    conns,      \* the storage handles pgconn_create has returned
    exit_status \* the argument of exit(): None while the command runs

ivars == <<dryrun, mpc, success, main_conn, main_tx, walk, queue, worker, task,
           files, inserted_in, retval, history, db, conns, exit_status>>

(***************************************************************************)
(* State of the server: the handlers of src/src/routes.c running on the    *)
(* server's worker threads, the response cache they share, the cache of    *)
(* upstream summaries of src/src/ai.c, and the responses sent.             *)
(***************************************************************************)
VARIABLES
    corpus,         \* what the files and pages tables hold while the server
                    \* runs; "off" when the server does not run
    api_key,        \* whether getenv("GEMINI_API_KEY") returns a key
    response_cache, \* g_response_cache: the entries it holds
    ai_cache,       \* ai_response_cache: the entries it holds
    handler,        \* per worker thread of the server: the request it is
                    \* handling and how far pdf_search has come with it
    sent            \* the responses sent so far, oldest first, each with the
                    \* request it answers

svars == <<corpus, api_key, response_cache, ai_cache, handler, sent>>

(***************************************************************************)
(* State of the raster adapter of src/src/pdf.c: cairo_mutex and the       *)
(* threads rendering pages.                                                *)
(***************************************************************************)
VARIABLES
    cairo_mutex,    \* the thread holding the mutex, or NULL
    render          \* per thread: where its render_page_to_buffer is, with
                    \* the surface and the context it has created

rvars == <<cairo_mutex, render>>

(***************************************************************************)
(* State of the text cleaner of src/src/pdf_preprocess.c: one call of      *)
(* pdf_text_clean on a buffer, its loop taken one turn at a time.          *)
(***************************************************************************)
VARIABLES
    clean           \* the buffer, the arguments and the locals of the call

tvars == <<clean>>

(***************************************************************************)
(* State of the connection pool of src/src/database.c: the connections     *)
(* array and the run of init_connections and close_connections on it.      *)
(***************************************************************************)
VARIABLES
    connections,    \* per worker index: the handle stored there, or NULL
    startup         \* where init_connections or close_connections is, its
                    \* loop variables, and what has been destroyed so far

dvars == <<connections, startup>>

(***************************************************************************)
(* State of the page tasks of src/cli.c: one document that                 *)
(* walk_dir_callback has opened, the counter it allocates for it, and the  *)
(* extract_pdf_pages tasks it submits, one per page.                       *)
(***************************************************************************)
VARIABLES
    document,       \* the PopplerDocument and its counter: whether each is
                    \* still allocated, the value of the counter, how often
                    \* each has been released, and by whom
    submitter,      \* walk_dir_callback in its submission loop
    page_task       \* per page: how far its extract_pdf_pages has come

pvars == <<document, submitter, page_task>>

\* What the steps of each part leave alone.
beside_cache == <<ivars, svars, rvars, tvars, dvars, pvars>>
beside_indexer == <<cvars, svars, rvars, tvars, dvars, pvars>>
beside_server == <<cvars, ivars, rvars, tvars, dvars, pvars>>
beside_raster == <<cvars, ivars, svars, tvars, dvars, pvars>>
beside_cleaner == <<cvars, ivars, svars, rvars, dvars, pvars>>
beside_pool == <<cvars, ivars, svars, rvars, tvars, pvars>>
beside_pages == <<cvars, ivars, svars, rvars, tvars, dvars>>

Handlers == 1..NumHandlers

Queries == 1..NumQueries

\* The texts the upstream service may answer a query with.
Summaries == {"first answer", "second answer"}

\* A request parameter as the handler finds it: absent, a decimal number, or
\* text that str_to_int and str_to_i64 reject.  The number is hi * 2^32 + n,
\* with n what its low 32 bits are as an int.
Absent == [given |-> FALSE, parses |-> FALSE, n |-> 0, hi |-> 0]
Num(n) == [given |-> TRUE, parses |-> TRUE, n |-> n, hi |-> 0]
Garbage == [given |-> TRUE, parses |-> FALSE, n |-> 0, hi |-> 0]

\* The decimal text of 2^32 + n, which str_to_i64 takes and which is out of
\* the range of an int and of an INTEGER column.
Wide(n) == [given |-> TRUE, parses |-> TRUE, n |-> n, hi |-> 1]

\* (int)page_num_ll, lines 99 and 139: the low 32 bits.
IntCast(str) == str.n

FitsInt(str) == str.hi = 0

\* No request: what an idle handler holds.
NoWork == [pc |-> "idle", req |-> [op |-> "none", a |-> Absent, b |-> Absent],
           results |-> <<>>, context_len |-> 0, excerpts |-> <<>>]

\* The server before its first request; c = "off": no server in this run.
ServerState(c, key) ==
    /\ corpus = c
    /\ api_key = key
    /\ response_cache = {}
    /\ ai_cache = {}
    /\ handler = [h \in Handlers |-> NoWork]
    /\ sent = <<>>

\* No render in progress; result: what the last call returned, calls: the
\* calls of render_page_to_buffer the thread has made.
NoRender == [pc |-> "idle", surface |-> "none", cr |-> "none",
             result |-> None, calls |-> 0]

RasterState ==
    /\ cairo_mutex = NULL
    /\ render = [t \in Threads |-> NoRender]

\* No call of pdf_text_clean in this run.
NoClean == [pc |-> "off"]

CleanerState(c) == clean = c

\* The parts of the program that a run does not exercise.
ServerOff == ServerState("off", FALSE)
CleanerOff == CleanerState(NoClean)

WorkerIndexes == 0..(NUM_WORKERS - 1)

ConnAddrs == 1..NumConnAddrs

\* static pgconn_t* connections[NUM_WORKERS] = {}, line 74, with a run at
\* the place at.
PoolState(at) ==
    /\ connections = [w \in WorkerIndexes |-> NULL]
    /\ startup = [pc |-> at, i |-> 0, j |-> 0,
                  destroys |-> [a \in ConnAddrs |-> 0], stray |-> 0]

PoolOff == PoolState("off")

PageIndexes == 0..(MaxTaskPages - 1)

\* The document of npages pages is open and walk_dir_callback is at
\* the place at.
PagesState(at, npages) ==
    /\ document = [npages |-> npages, doc |-> "open", unrefs |-> 0,
                   ref_count |-> "none", value |-> 0, frees |-> 0,
                   by |-> "nobody", misuse |-> FALSE]
    /\ submitter = [pc |-> at, page |-> 0]
    /\ page_task = [p \in PageIndexes |-> "none"]

PagesOff == PagesState("off", 0)

Docs == 1..NumDocs

Workers == 1..NumWorkers

\* poppler_document_get_n_pages of document d: the files of the directory
\* have 1, 2, ... pages, up to MaxPages.
NPages(d) == ((d - 1) % MaxPages) + 1

\* The text poppler_page_get_text and pdf_text_clean give for page p of d.
Text(d, p) == <<d, p>>

Histories == {"fresh", "same", "longer"}

\* The rows of pages a committed run has written for d when d had n pages.
PageRows(d, n) ==
    {[file_id |-> d, page_num |-> p, text |-> Text(d, p), st |-> "stored"] :
        p \in 1..n}

\* The database before the run.
PriorPages(hist, d) ==
    IF hist = "fresh" THEN 0 ELSE IF hist = "same" THEN NPages(d) ELSE MaxPages

PriorDb(hist) ==
    [ids |-> [d \in Docs |-> IF hist = "fresh" THEN NULL ELSE d],
     num_pages |-> [d \in Docs |-> PriorPages(hist, d)],
     seq |-> IF hist = "fresh" THEN 0 ELSE NumDocs,
     pages |-> UNION {PageRows(d, PriorPages(hist, d)) : d \in Docs}]

PriorFiles(hist) == [d \in Docs |-> IF hist = "fresh" THEN "absent" ELSE "stored"]

\* The handles: pgconn_create returns the lowest one not yet given out.
\* by and users name threads of control: the walker (main) and the tasks
\* by their documents.
HandleIds == 1..(NumDocs + 1)

Nobody == [main |-> FALSE, tasks |-> {}]

MainThread == [main |-> TRUE, tasks |-> {}]

TaskThread(d) == [main |-> FALSE, tasks |-> {d}]

NoConn == [st |-> "free", by |-> Nobody, users |-> Nobody]

\* pgconn_create: the handle returned.
pgconn_create(cs) ==
    CHOOSE h \in HandleIds :
        cs[h].st = "free" /\ \A g \in HandleIds : cs[g].st = "free" => h <= g

Opened(cs, h, who) == [cs EXCEPT ![h] = [st |-> "open", by |-> who, users |-> Nobody]]

\* A statement issued on handle h by who.
Used(cs, h, who) ==
    [cs EXCEPT ![h].users = [main |-> cs[h].users.main \/ who.main,
                             tasks |-> cs[h].users.tasks \cup who.tasks]]

pgconn_destroy(cs, h) == [cs EXCEPT ![h].st = "destroyed"]

NoTask ==
    [st |-> "none", tx |-> "none", pages_ok |-> FALSE, failed |-> FALSE,
     file_id |-> NULL, npages |-> 0, conn |-> NULL, page_num |-> 0,
     all_ok |-> TRUE, end_cmd |-> "none", end_failed |-> FALSE, log |-> <<>>,
     ops |-> <<>>]

\* What a task has done on its handle, as the ops of the task record it: a
\* statement with the page it is about (0 if none) and whether it succeeded,
\* or the close of the handle.
Op(stmt, page, ok) == [stmt |-> stmt, page |-> page, ok |-> ok]

IndexerState(run, dry, hist) ==
    /\ dryrun = dry
    /\ mpc = IF run THEN "create_pool" ELSE "off"
    /\ success = TRUE
    /\ main_conn = "null"
    /\ main_tx = "none"
    /\ walk = 1
    /\ queue = <<>>
    /\ worker = [w \in Workers |-> NULL]
    /\ task = [d \in Docs |-> NoTask]
    /\ files = PriorFiles(hist)
    /\ inserted_in = [d \in Docs |-> "never"]
    /\ retval = None
    /\ history = hist
    /\ db = PriorDb(hist)
    /\ conns = [h \in HandleIds |-> NoConn]
    /\ exit_status = None

Call(op, key, val, ttl, ok, oom, path, want, refres) ==
    [op |-> op, key |-> key, val |-> val, ttl |-> ttl, ok |-> ok, oom |-> oom,
     path |-> path, want |-> want, refres |-> refres]

NoCall(op) == Call(op, KeyEmpty, None, 0, FALSE, FALSE, "", None, NoRefResult)

CacheInit(universe, r) ==
    /\ keys = universe
    /\ now = 0
    /\ cache = EmptyCache
    /\ pc = [t \in Threads |-> "idle"]
    /\ arg = [t \in Threads |-> KeyEmpty]
    /\ last = NoCall("create")
    /\ recency = <<>>
    /\ expect = [k \in universe |-> None]
    /\ ref = r

\* The recency order after a call that leaves the cache as c2: k first when
\* the call used k successfully, then the keys that were stored before and
\* still are, in their old order.
Touch(used, k, c2) ==
    LET stored == KeySet(ListView(c2))
        rest == SelectSeq(recency, LAMBDA x : x \in stored /\ ~(used /\ x = k))
    IN  IF used THEN <<k>> \o rest ELSE rest

\* The keys other than k that a call leaving the cache as c2 has removed.
Removed(c2, k) == KeySet(ListView(cache)) \ (KeySet(ListView(c2)) \cup {k})

\* A call of response_cache_set by thread t; oom: an allocation of the call
\* fails (the first one it comes to).
Set(t, key, value, ttl, oom) ==
    /\ pc[t] = "idle"
    /\ \E r \in {response_cache_set(cache, key, value, ttl, now, oom)} :
          /\ oom => r.path # "reject"
          /\ cache' = r.c
          /\ last' = Call("set", key, IF r.ok THEN Some(value) ELSE None,
                          IF r.ok THEN ttl ELSE 0, r.ok, oom, r.path,
                          None, NoRefResult)
          /\ recency' = Touch(r.ok, Strncpy(key), r.c)
          /\ \E gone \in {Removed(r.c, Strncpy(key))} :
                expect' = [k \in keys |->
                             IF k = key /\ r.ok
                             THEN Some([val |-> value, exp |-> now + TtlOf(ttl)])
                             ELSE IF k \in gone THEN None
                             ELSE expect[k]]
          /\ ref' = IF ref.void THEN VOID
                    ELSE IF oom THEN RefSync(r.c, now)
                    ELSE RefSet(ref, key, value, ttl, now)
    /\ UNCHANGED <<keys, now, pc, arg>>
    /\ UNCHANGED beside_cache

\* The call of response_cache_get up to its first unlock.  The caller frees
\* the buffer of a hit before its next call.
GetBegin(t, key, oom) ==
    /\ pc[t] = "idle"
    /\ \E r \in {response_cache_get(cache, key, now, oom)} :
          /\ oom => r.res = "oom"
          /\ cache' = r.c
          /\ recency' = Touch(r.res = "hit", key, r.c)
          /\ UNCHANGED ref
          /\ IF r.res = "expired"
             THEN /\ pc' = [pc EXCEPT ![t] = "get_expired"]
                  /\ arg' = [arg EXCEPT ![t] = key]
                  /\ last' = Call("get_unlock", key, None, 0, FALSE, FALSE,
                                  "expired", expect[key], NoRefResult)
             ELSE /\ last' = Call("get", key, r.buf, 0, r.res = "hit",
                                  oom, r.res, expect[key], NoRefResult)
                  /\ UNCHANGED <<pc, arg>>
    /\ UNCHANGED <<keys, now, expect>>
    /\ UNCHANGED beside_cache

\* Lines 170-171 of response_cache_get: the entry found expired is removed by a
\* call of response_cache_invalidate, and the get returns false.
GetExpired(t) ==
    /\ pc[t] = "get_expired"
    /\ cache' = invalidate(cache, arg[t])
    /\ recency' = Touch(FALSE, arg[t], cache')
    /\ last' = Call("get", arg[t], None, 0, FALSE, FALSE, "expired", None,
                    NoRefResult)
    /\ pc' = [pc EXCEPT ![t] = "idle"]
    /\ arg' = [arg EXCEPT ![t] = KeyEmpty]
    /\ UNCHANGED <<keys, now, expect, ref>>
    /\ UNCHANGED beside_cache

\* A whole call of response_cache_get by the only caller of a run without
\* concurrency: the critical section and, for an expired entry, the
\* invalidate that follows it.
Get(t, key, oom) ==
    /\ pc[t] = "idle"
    /\ \E r \in {response_cache_get(cache, key, now, oom)} :
          /\ oom => r.res = "oom"
          /\ cache' = IF r.res = "expired" THEN invalidate(r.c, key) ELSE r.c
          /\ recency' = Touch(r.res = "hit", key, cache')
          /\ ref' = IF ref.void THEN VOID
                    ELSE IF oom THEN RefSync(cache', now)
                    ELSE RefGet(ref, key)
          /\ last' = Call("get", key, r.buf, 0, r.res = "hit", oom, r.res,
                          expect[key],
                          IF ref.void \/ oom THEN NoRefResult ELSE RefResult(ref, key))
    /\ UNCHANGED <<keys, now, pc, arg, expect>>
    /\ UNCHANGED beside_cache

Invalidate(t, key) ==
    /\ pc[t] = "idle"
    /\ cache' = invalidate(cache, key)
    /\ recency' = Touch(FALSE, key, cache')
    /\ last' = Call("invalidate", key, None, 0, TRUE, FALSE, "", None, NoRefResult)
    /\ expect' = [expect EXCEPT ![key] = None]
    /\ ref' = IF ref.void THEN VOID ELSE RefInvalidate(ref, key)
    /\ UNCHANGED <<keys, now, pc, arg>>
    /\ UNCHANGED beside_cache

Clear(t) ==
    /\ pc[t] = "idle"
    /\ cache' = clear(cache)
    /\ last' = Call("clear", KeyEmpty, None, 0, TRUE, FALSE, "", None, NoRefResult)
    /\ recency' = <<>>
    /\ expect' = [k \in keys |-> None]
    /\ ref' = IF ref.void THEN VOID ELSE Ref(<<>>)
    /\ UNCHANGED <<keys, now, pc, arg>>
    /\ UNCHANGED beside_cache

\* A second passes.
Tick ==
    /\ now < MaxTime
    /\ now' = now + 1
    /\ expect' = [k \in keys |->
                    IF expect[k] # None /\ now' >= expect[k][1].exp THEN None ELSE expect[k]]
    /\ ref' = IF ref.void THEN VOID ELSE RefPurge(ref, now')
    /\ last' = NoCall("tick")
    /\ UNCHANGED <<keys, cache, pc, arg, recency>>
    /\ UNCHANGED beside_cache

(***************************************************************************)
(* Spec: one caller, whose calls follow one another.                       *)
(***************************************************************************)
Caller == CHOOSE t \in Threads : \A u \in Threads : t <= u

\* The value and ttl of a set whose allocation fails: they are not looked at.
FailValue == CHOOSE v \in Values : TRUE

Init ==
    /\ \E universe \in {ShortKeys, LongKeys} : CacheInit(universe, Ref(<<>>))
    /\ IndexerState(FALSE, FALSE, "fresh")
    /\ ServerOff /\ RasterState /\ CleanerOff /\ PoolOff /\ PagesOff

Next ==
    \/ \E key \in keys, value \in Values, ttl \in Ttls :
          Set(Caller, key, value, ttl, FALSE)
    \/ \E key \in keys : Set(Caller, key, FailValue, 0, TRUE)
    \/ \E key \in keys, oom \in BOOLEAN : Get(Caller, key, oom)
    \/ \E key \in keys : Invalidate(Caller, key)
    \/ Clear(Caller)
    \/ Tick

vars == <<cvars, ivars, svars, rvars, tvars, dvars, pvars>>

Spec == Init /\ [][Next]_vars

(***************************************************************************)
(* SpecRace: the threads call get, set, invalidate and clear concurrently. *)
(* Each critical section is one step (pthread_rwlock_wrlock is held from   *)
(* its first to its last statement); a get that finds its entry expired    *)
(* takes two.                                                              *)
(***************************************************************************)
RaceKeys == {KeyA, Key8}

RaceInit ==
    /\ CacheInit(RaceKeys, VOID) /\ IndexerState(FALSE, FALSE, "fresh")
    /\ ServerOff /\ RasterState /\ CleanerOff /\ PoolOff /\ PagesOff

RaceNext ==
    \/ \E t \in Threads, key \in keys, value \in Values, ttl \in Ttls :
          Set(t, key, value, ttl, FALSE)
    \/ \E t \in Threads, key \in keys : GetBegin(t, key, FALSE)
    \/ \E t \in Threads : GetExpired(t)
    \/ \E t \in Threads, key \in keys : Invalidate(t, key)
    \/ \E t \in Threads : Clear(t)
    \/ Tick

SpecRace == RaceInit /\ [][RaceNext]_vars

(***************************************************************************)
(* Part II.  The indexer of src/src/cli.c.                                 *)
(*                                                                         *)
(* defer is the scope-bound release of solidc/defer.h: its block runs when *)
(* control leaves the braces in which it stands (process_all_pages relies  *)
(* on this for the page and the text of each turn of its loop).  In        *)
(* process_pdfs the defers of lines 318 and 323 stand in the function body *)
(* and run, last first, once the return value is computed; the defer of    *)
(* lines 331-336 stands inside the braces of if (!dryrun) and runs at the  *)
(* closing brace of line 337.                                              *)
(***************************************************************************)

\* The variables a step of the pool or of the database leaves alone.
fixed == <<dryrun, history>>

poolvars == <<queue, worker, task>>

dbvars == <<files, inserted_in, db>>

\* The handle process_pdfs holds in main_conn.
MainHandle(cs) == CHOOSE h \in HandleIds : cs[h].by.main

\* Line 316: threadpool_create(WORKERS).
CreatePool ==
    /\ mpc = "create_pool"
    /\ mpc' = "create_conn"
    /\ UNCHANGED <<success, main_conn, main_tx, walk, retval, conns, exit_status>>
    /\ UNCHANGED <<fixed, poolvars, dbvars>>
    /\ UNCHANGED beside_indexer

\* Line 321: pgconn_create(config).
CreateConn ==
    /\ mpc = "create_conn"
    /\ main_conn' = "open"
    /\ conns' = Opened(conns, pgconn_create(conns), MainThread)
    /\ mpc' = "begin"
    /\ UNCHANGED <<success, main_tx, walk, retval, exit_status>>
    /\ UNCHANGED <<fixed, poolvars, dbvars>>
    /\ UNCHANGED beside_indexer

\* Lines 326-329: BEGIN on main_conn unless dryrun.
Begin ==
    /\ mpc = "begin"
    /\ IF dryrun
       THEN mpc' = "walk" /\ UNCHANGED <<main_tx, conns>>
       ELSE /\ mpc' = "block_end"
            /\ main_tx' = "open"
            /\ conns' = Used(conns, MainHandle(conns), MainThread)
    /\ UNCHANGED <<success, main_conn, walk, retval, exit_status>>
    /\ UNCHANGED <<fixed, poolvars, dbvars>>
    /\ UNCHANGED beside_indexer

\* What a COMMIT or ROLLBACK on main_conn does to the rows written in its
\* transaction.
EndRows(cmd) ==
    [d \in Docs |->
        IF files[d] = "pending"
        THEN (IF cmd = "COMMIT" THEN "stored" ELSE "absent")
        ELSE files[d]]

\* Line 337, the closing brace of if (!dryrun): the defer of lines 331-336
\* runs, atomic_load(&success) ? "COMMIT" : "ROLLBACK" on main_conn.
BlockEnd ==
    /\ mpc = "block_end"
    /\ \E end_cmd \in {IF success THEN "COMMIT" ELSE "ROLLBACK"} :
          /\ main_tx' = end_cmd
          /\ files' = EndRows(end_cmd)
    /\ conns' = Used(conns, MainHandle(conns), MainThread)
    /\ mpc' = "walk"
    /\ UNCHANGED <<success, main_conn, walk, retval, exit_status, inserted_in, db>>
    /\ UNCHANGED <<fixed, poolvars>>
    /\ UNCHANGED beside_indexer

\* Variant: the statement always makes a new row with a new id.
file_insert_AlwaysNew(dbs, d, n) ==
    [dbs EXCEPT !.ids[d] = dbs.seq + 1, !.num_pages[d] = n, !.seq = dbs.seq + 1]

\* file_insert_query, lines 14-16: a new row takes the next id of the
\* sequence; on a conflict of (name, path) the row keeps its id and takes
\* the new num_pages.  ids[d] is the id the statement returns.
file_insert(dbs, d, n) ==
    [dbs EXCEPT !.ids[d] = IF dbs.ids[d] # NULL THEN dbs.ids[d] ELSE dbs.seq + 1,
                !.num_pages[d] = n,
                !.seq = dbs.seq + 1]

\* Variant: the callback stops the walk once success is false.
WalkOutcome_StopOnFailure(is_pdf, dry, insert_ok) ==
    IF ~is_pdf THEN "continue"
    ELSE IF dry THEN "found"
    ELSE IF ~insert_ok \/ ~success THEN "stop"
    ELSE "submit"

\* Variant: the callback does not look at dryrun.
WalkOutcome_NoDryrun(is_pdf, dry, insert_ok) ==
    IF ~is_pdf THEN "continue"
    ELSE IF ~insert_ok THEN "stop"
    ELSE "submit"

\* The way walk_dir_callback takes.  is_pdf: the entry gets past lines
\* 196-247 (a .pdf that opens and has enough pages); insert_ok: the
\* statement of line 259 returns a result.
WalkOutcome(is_pdf, dry, insert_ok) ==
    IF ~is_pdf THEN "continue"
    ELSE IF dry THEN "found"
    ELSE IF ~insert_ok THEN "stop"
    ELSE "submit"

\* The task parameters of lines 283-291.
Params(d, id) ==
    [NoTask EXCEPT !.st = "queued", !.file_id = id, !.npages = NPages(d)]

\* walk_dir_callback for the entry dir_walk has come to.
WalkCallback(is_pdf, insert_ok) ==
    /\ mpc = "walk"
    /\ walk \in Docs
    /\ \E way \in {WalkOutcome(is_pdf, dryrun, insert_ok)} :
        IF way \in {"continue", "found"}
        THEN \* lines 196-252: DirContinue
             /\ walk' = walk + 1
             /\ UNCHANGED <<success, queue, task, files, inserted_in, db, conns>>
        ELSE IF way = "stop"
        THEN \* lines 259-265: DirStop
             /\ success' = FALSE
             /\ walk' = NumDocs + 1
             /\ conns' = Used(conns, MainHandle(conns), MainThread)
             /\ UNCHANGED <<queue, task, files, inserted_in, db>>
        ELSE \* lines 259, 267-299: the row is written and the task submitted
             /\ files' = [files EXCEPT
                            ![walk] = IF files[walk] = "stored" THEN "stored"
                                      ELSE IF main_tx = "open" THEN "pending"
                                      ELSE "stored"]
             /\ inserted_in' = [inserted_in EXCEPT ![walk] = main_tx]
             /\ db' = file_insert(db, walk, NPages(walk))
             /\ conns' = Used(conns, MainHandle(conns), MainThread)
             /\ task' = [task EXCEPT ![walk] = Params(walk, db'.ids[walk])]
             /\ queue' = Append(queue, walk)
             /\ walk' = walk + 1
             /\ UNCHANGED success
    /\ UNCHANGED <<mpc, main_conn, main_tx, worker, retval, exit_status>>
    /\ UNCHANGED fixed
    /\ UNCHANGED beside_indexer

\* Lines 353-356: dir_walk returns; a result other than 0 clears success.
\* The walk ends with 0 after its last entry, and with an error anywhere.
WalkEnd(walk_result) ==
    /\ mpc = "walk"
    /\ walk_result = 0 => walk = NumDocs + 1
    /\ success' = IF walk_result # 0 THEN FALSE ELSE success
    /\ mpc' = "return"
    /\ UNCHANGED <<main_conn, main_tx, walk, retval, conns, exit_status>>
    /\ UNCHANGED <<fixed, poolvars, dbvars>>
    /\ UNCHANGED beside_indexer

\* Line 358: the value of return atomic_load(&success) is taken.
Return ==
    /\ mpc = "return"
    /\ retval' = Some(success)
    /\ mpc' = "destroy_conn"
    /\ UNCHANGED <<success, main_conn, main_tx, walk, conns, exit_status>>
    /\ UNCHANGED <<fixed, poolvars, dbvars>>
    /\ UNCHANGED beside_indexer

\* The defer of line 323: pgconn_destroy(main_conn).  The server rolls back
\* a transaction its connection leaves open.
DestroyConn ==
    /\ mpc = "destroy_conn"
    /\ main_conn' = "destroyed"
    /\ conns' = pgconn_destroy(conns, MainHandle(conns))
    /\ IF main_tx = "open"
       THEN main_tx' = "ROLLBACK" /\ files' = EndRows("ROLLBACK")
       ELSE UNCHANGED <<main_tx, files>>
    /\ mpc' = "destroy_pool"
    /\ UNCHANGED <<success, walk, retval, exit_status, inserted_in, db>>
    /\ UNCHANGED <<fixed, poolvars>>
    /\ UNCHANGED beside_indexer

\* The defer of line 318: threadpool_destroy(threadpool, -1) returns when
\* the pool has run every task submitted to it.
DestroyPool ==
    /\ mpc = "destroy_pool"
    /\ queue = <<>>
    /\ \A w \in Workers : worker[w] = NULL
    /\ mpc' = "done"
    /\ UNCHANGED <<success, main_conn, main_tx, walk, retval, conns, exit_status>>
    /\ UNCHANGED <<fixed, poolvars, dbvars>>
    /\ UNCHANGED beside_indexer

\* build_index_handler, lines 58-59 of src/src/lexicon.c: the value of
\* process_pdfs is dropped and the command exits with EXIT_SUCCESS.
Exit ==
    /\ mpc = "done"
    /\ exit_status' = Some(EXIT_SUCCESS)
    /\ mpc' = "exited"
    /\ UNCHANGED <<success, main_conn, main_tx, walk, retval, conns>>
    /\ UNCHANGED <<fixed, poolvars, dbvars>>
    /\ UNCHANGED beside_indexer

\* Variant: a task issues its statements on the walker's handle.
TaskConn_Main(cs, t) == MainHandle(cs)

\* The handle a task issues its statements on: its own conn.
TaskConn(cs, t) == t.conn

\* A worker of the pool takes the oldest task; process_pdf_task creates its
\* connection (line 114).
TaskStart(w) ==
    /\ worker[w] = NULL
    /\ queue # <<>>
    /\ worker' = [worker EXCEPT ![w] = Head(queue)]
    /\ queue' = Tail(queue)
    /\ \E h \in {pgconn_create(conns)} :
          /\ conns' = Opened(conns, h, TaskThread(Head(queue)))
          /\ task' = [task EXCEPT ![Head(queue)].st = "open",
                                  ![Head(queue)].conn = h]
    /\ UNCHANGED <<mpc, success, main_conn, main_tx, walk, retval, exit_status>>
    /\ UNCHANGED <<fixed, dbvars>>
    /\ UNCHANGED beside_indexer

\* Lines 119-140: the document is opened and its pages counted.  outcome is
\* "ok", "open_failed" (line 125) or "mismatch" (line 135).
TaskOpen(w, outcome) ==
    /\ worker[w] # NULL
    /\ task[worker[w]].st = "open"
    /\ IF outcome = "ok"
       THEN /\ task' = [task EXCEPT ![worker[w]].st = "begin"]
            /\ UNCHANGED success
       ELSE /\ success' = FALSE
            /\ task' = [task EXCEPT ![worker[w]].st = "close",
                                    ![worker[w]].failed = TRUE]
    /\ UNCHANGED <<mpc, main_conn, main_tx, walk, queue, worker, retval,
                   conns, exit_status>>
    /\ UNCHANGED <<fixed, dbvars>>
    /\ UNCHANGED beside_indexer

\* Lines 143-147: BEGIN on the task's connection.
TaskBegin(w) ==
    /\ worker[w] # NULL
    /\ task[worker[w]].st = "begin"
    /\ task' = [task EXCEPT ![worker[w]].st = "pages",
                            ![worker[w]].tx = "open",
                            ![worker[w]].ops = Append(@, Op("BEGIN", 0, TRUE))]
    /\ conns' = Used(conns, TaskConn(conns, task[worker[w]]), TaskThread(worker[w]))
    /\ UNCHANGED <<mpc, success, main_conn, main_tx, walk, queue, worker,
                   retval, exit_status>>
    /\ UNCHANGED <<fixed, dbvars>>
    /\ UNCHANGED beside_indexer

\* Variant: the row is stored at once, outside any transaction.
page_insert_Autocommit(dbs, id, p, text) ==
    IF \E r \in dbs.pages : r.file_id = id /\ r.page_num = p
    THEN dbs
    ELSE [dbs EXCEPT !.pages = dbs.pages \cup
             {[file_id |-> id, page_num |-> p, text |-> text, st |-> "stored"]}]

\* page_insert_query, lines 17-18: the row is written in the transaction
\* of the task unless pages has a row of this file_id and page_num.
page_insert(dbs, id, p, text) ==
    IF \E r \in dbs.pages : r.file_id = id /\ r.page_num = p
    THEN dbs
    ELSE [dbs EXCEPT !.pages = dbs.pages \cup
             {[file_id |-> id, page_num |-> p, text |-> text, st |-> "pending"]}]

\* One turn of the loop of process_all_pages, lines 45-92, for page_num.
\* outcome is "no_page" (line 47), "no_text" (line 57), "inserted" or
\* "insert_failed" (line 84).
ProcessPage(w, outcome) ==
    /\ worker[w] # NULL
    /\ task[worker[w]].st = "pages"
    /\ task[worker[w]].page_num < task[worker[w]].npages
    /\ \E d \in {worker[w]} : \E t \in {task[d]} :
          /\ task' = [task EXCEPT
                        ![d].page_num = t.page_num + 1,
                        ![d].log = Append(t.log, outcome),
                        ![d].ops = IF outcome \in {"inserted", "insert_failed"}
                                   THEN Append(t.ops, Op("INSERT", t.page_num + 1,
                                                         outcome = "inserted"))
                                   ELSE t.ops,
                        ![d].all_ok = IF outcome \in {"no_page", "insert_failed"}
                                      THEN FALSE ELSE t.all_ok]
          /\ db' = IF outcome = "inserted"
                   THEN page_insert(db, t.file_id, t.page_num + 1,
                                    Text(d, t.page_num + 1))
                   ELSE db
          /\ conns' = IF outcome \in {"inserted", "insert_failed"}
                      THEN Used(conns, TaskConn(conns, t), TaskThread(d))
                      ELSE conns
    /\ UNCHANGED <<mpc, success, main_conn, main_tx, walk, queue, worker,
                   retval, exit_status, files, inserted_in>>
    /\ UNCHANGED fixed
    /\ UNCHANGED beside_indexer

\* Variant: the task stores the outcome of its pages into the flag.
StoreOnFailure_Outcome(ok, flag) == ok

\* Lines 168-169: if (!pages_ok) atomic_store(params->success, false); the
\* value of the flag after it.
StoreOnFailure(ok, flag) == IF ok THEN flag ELSE FALSE

\* Lines 166-173: process_all_pages has returned all_ok after its last
\* page, and a false clears success.
TaskPages(w) ==
    /\ worker[w] # NULL
    /\ task[worker[w]].st = "pages"
    /\ task[worker[w]].page_num = task[worker[w]].npages
    /\ \E all_ok \in {task[worker[w]].all_ok} :
          /\ task' = [task EXCEPT ![worker[w]].st = "end",
                                  ![worker[w]].pages_ok = all_ok,
                                  ![worker[w]].failed = ~all_ok]
          /\ success' = StoreOnFailure(all_ok, success)
    /\ UNCHANGED <<mpc, main_conn, main_tx, walk, queue, worker, retval,
                   conns, exit_status>>
    /\ UNCHANGED <<fixed, dbvars>>
    /\ UNCHANGED beside_indexer

\* What the end of the transaction of the task with file_id id does to the
\* rows it has written.
EndPages(dbs, id, cmd) ==
    [dbs EXCEPT !.pages =
        {IF r.file_id = id /\ r.st = "pending" THEN [r EXCEPT !.st = "stored"] ELSE r :
            r \in {q \in dbs.pages :
                     cmd = "COMMIT" \/ ~(q.file_id = id /\ q.st = "pending")}}]

\* Variant: the transaction is always committed.
EndCmd_Commit(pages_ok) == "COMMIT"

\* Line 151: pages_ok ? "COMMIT" : "ROLLBACK".
EndCmd(pages_ok) == IF pages_ok THEN "COMMIT" ELSE "ROLLBACK"

\* The defer of lines 150-163: COMMIT or ROLLBACK by pages_ok, and a
\* ROLLBACK when that statement fails (end_ok false); the rows of a
\* transaction that no statement has ended go when the connection closes.
TaskEnd(w, end_ok) ==
    /\ worker[w] # NULL
    /\ task[worker[w]].st = "end"
    /\ \E end_cmd \in {EndCmd(task[worker[w]].pages_ok)} :
       \E done \in {IF end_ok THEN end_cmd ELSE "ROLLBACK"} :
          /\ task' = [task EXCEPT ![worker[w]].st = "close",
                                  ![worker[w]].tx = done,
                                  ![worker[w]].end_cmd = end_cmd,
                                  ![worker[w]].end_failed = ~end_ok,
                                  ![worker[w]].ops =
                                      @ \o <<Op(end_cmd, 0, end_ok)>>
                                        \o (IF end_ok THEN <<>>
                                            ELSE <<Op("ROLLBACK", 0, TRUE)>>)]
          /\ db' = EndPages(db, task[worker[w]].file_id, done)
    /\ conns' = Used(conns, TaskConn(conns, task[worker[w]]), TaskThread(worker[w]))
    /\ UNCHANGED <<mpc, success, main_conn, main_tx, walk, queue, worker,
                   retval, exit_status, files, inserted_in>>
    /\ UNCHANGED fixed
    /\ UNCHANGED beside_indexer

\* The defers of lines 116 and 107-111: the connection is destroyed, the
\* parameters are freed and the task is over.
TaskClose(w) ==
    /\ worker[w] # NULL
    /\ task[worker[w]].st = "close"
    /\ task' = [task EXCEPT ![worker[w]].st = "done",
                            ![worker[w]].ops = Append(@, Op("close", 0, TRUE))]
    /\ worker' = [worker EXCEPT ![w] = NULL]
    /\ conns' = pgconn_destroy(conns, task[worker[w]].conn)
    /\ UNCHANGED <<mpc, success, main_conn, main_tx, walk, queue, retval,
                   exit_status>>
    /\ UNCHANGED <<fixed, dbvars>>
    /\ UNCHANGED beside_indexer

(***************************************************************************)
(* SpecIndex: one run of the index command with its workers.               *)
(***************************************************************************)
IndexInit ==
    /\ CacheInit(RaceKeys, VOID)
    /\ \E dry \in BOOLEAN, hist \in Histories : IndexerState(TRUE, dry, hist)
    /\ ServerOff /\ RasterState /\ CleanerOff /\ PoolOff /\ PagesOff

IndexNext ==
    \/ CreatePool
    \/ CreateConn
    \/ Begin
    \/ BlockEnd
    \/ \E is_pdf \in BOOLEAN, insert_ok \in BOOLEAN : WalkCallback(is_pdf, insert_ok)
    \/ \E walk_result \in {0, -1} : WalkEnd(walk_result)
    \/ Return
    \/ DestroyConn
    \/ DestroyPool
    \/ Exit
    \/ \E w \in Workers : TaskStart(w)
    \/ \E w \in Workers, outcome \in {"ok", "open_failed", "mismatch"} :
          TaskOpen(w, outcome)
    \/ \E w \in Workers : TaskBegin(w)
    \/ \E w \in Workers,
          outcome \in {"no_page", "no_text", "inserted", "insert_failed"} :
          ProcessPage(w, outcome)
    \/ \E w \in Workers : TaskPages(w)
    \/ \E w \in Workers, end_ok \in BOOLEAN : TaskEnd(w, end_ok)
    \/ \E w \in Workers : TaskClose(w)

SpecIndex == IndexInit /\ [][IndexNext]_vars

(***************************************************************************)
(* Part III.  The server's handlers of src/src/routes.c and the upstream   *)
(* summaries of src/src/ai.c.                                              *)
(*                                                                         *)
(* A handler runs on one of the server's worker threads.  Each handler is  *)
(* one step, except pdf_search, which is cut where get_ai_summary reads    *)
(* the summary cache and where its request to the upstream service         *)
(* returns.  The caches are those of solidc/cache.h: a locked table of     *)
(* entries that a time-to-live or an eviction can remove.                  *)
(***************************************************************************)

\* The files of a corpus: two files, the first of the library a long one.
ServedFiles == {1, 2}

NumPagesOf(c, f) == IF c = "library" /\ f = 1 THEN LibraryPages ELSE MaxPages

\* The length of files.name and of pages.text, in bytes of plain ASCII.
NameLen(f) == NameBytes
TextLen(c, f, p) ==
    IF c = "library" THEN TOKENIZER_LIMIT ELSE IF p = 1 THEN 40 ELSE 600

\* text_vector @@ websearch_to_tsquery(q): the first query is in the text of
\* every page, the others in none.
Matches(q, f, p) == q = 1

Min(a, b) == IF a < b THEN a ELSE b

\* The row the SELECT of lines 289-295 returns for page p of file f.
SearchRow(c, f, p) ==
    [file_id |-> f, name |-> f, name_len |-> NameLen(f),
     num_pages |-> NumPagesOf(c, f), page_num |-> p,
     snippet |-> [of |-> <<f, p>>, len |-> Min(TextLen(c, f, p), SNIPPET_CHARS)],
     extended_len |-> Min(TextLen(c, f, p), EXTENDED_SNIPPET_CHARS),
     valid |-> TRUE]

RowsOfFile(c, q, f) ==
    IF f \in ServedFiles
    THEN SelectSeq([p \in 1..NumPagesOf(c, f) |-> SearchRow(c, f, p)],
                   LAMBDA r : Matches(q, r.file_id, r.page_num))
    ELSE <<>>

\* The result of the search statement: every rank being equal, ORDER BY rank
\* DESC, name, page_num is the order of file and page; LIMIT 100.
search_query(c, q, fileId) ==
    LET all == IF fileId.given
               THEN IF fileId.parses THEN RowsOfFile(c, q, fileId.n) ELSE <<>>
               ELSE RowsOfFile(c, q, 1) \o RowsOfFile(c, q, 2)
    IN  SubSeq(all, 1, Min(Len(all), SEARCH_LIMIT))

\* cache_get and cache_set of solidc/cache.h on the entries c.
cache_get(c, key) ==
    IF \E e \in c : e.key = key
    THEN Some((CHOOSE e \in c : e.key = key).val)
    ELSE None

cache_set(c, key, val) ==
    {e \in c : e.key # key} \cup {[key |-> key, val |-> val]}

\* A cache key: the format of the snprintf that builds it and its arguments.
Key(fmt, args) == [fmt |-> fmt, args |-> args]

cache_make_key(file_id, page_num) ==
    IF page_num >= 0
    THEN Key("file:%lld:page:%d", <<file_id, page_num>>)
    ELSE Key("file:%lld", <<file_id>>)

\* The key of line 244: the query, and nothing of fileId.
SearchKey(q, fileId) == Key("search:%s", <<q>>)

\* The number of characters %d prints for n >= 0.
Digits(n) == IF n < 10 THEN 1 ELSE IF n < 100 THEN 2 ELSE IF n < 1000 THEN 3 ELSE 4

\* snprintf(NULL, 0, "\n=== EXCERPT %d: [%s, Page %d of %d] ===\n", ...)
HeaderLen(n, row) ==
    Len(<<10, 61, 61, 61, 32, 69, 88, 67, 69, 82, 80, 84, 32>>) + Digits(n)
        + Len(<<58, 32, 91>>) + row.name_len
        + Len(<<44, 32, 80, 97, 103, 101, 32>>) + Digits(row.page_num)
        + Len(<<32, 111, 102, 32>>) + Digits(row.num_pages)
        + Len(<<93, 32, 61, 61, 61, 10>>)

\* Variant: the context takes an excerpt whatever its size.
ContextFull_Never(needed) == FALSE

\* Line 402.
ContextFull(needed) == needed > MAX_CONTEXT_SIZE

\* Line 405: the break leaves the loop over the rows.
OnContextFull(acc) == [acc EXCEPT !.stopped = TRUE]

\* Lines 443-453: the object of a row in the results array.
ResultObject(row) ==
    [file_id |-> row.file_id, file_name |-> row.name, page_num |-> row.page_num,
     num_pages |-> row.num_pages, snippet |-> row.snippet]

\* The turns i, i+1, ... of the loop of lines 370-454 over the first
\* context_limit rows.  acc: the context so far (its length, and its pieces
\* in order), the results array, and whether a break has left the loop.
RECURSIVE SearchLoop(_, _, _, _)
SearchLoop(rows, i, context_limit, acc) ==
    IF i > context_limit \/ acc.stopped THEN acc
    ELSE
    LET row == rows[i]
        result == ResultObject(row)
        needed == acc.context_len + HeaderLen(i, row) + row.extended_len + 3
        excerpt == <<[piece |-> "header", n |-> i, row |-> i],
                     [piece |-> "snippet", n |-> i, row |-> i]>>
        added == [acc EXCEPT
                     !.context_len = @ + HeaderLen(i, row) + row.extended_len + 2,
                     !.excerpts = @ \o excerpt,
                     !.results = Append(@, result)]
    IN  IF ~row.valid THEN SearchLoop(rows, i + 1, context_limit, acc)
        ELSE IF acc.context_len < MAX_CONTEXT_SIZE
        THEN IF ContextFull(needed)
             THEN OnContextFull(acc)
             ELSE SearchLoop(rows, i + 1, context_limit, added)
        ELSE SearchLoop(rows, i + 1, context_limit,
                        [acc EXCEPT !.results = Append(@, result)])

\* The loop of lines 370-454: past context_limit a turn adds its row to the
\* results and nothing to the context.
BuildResults(rows) ==
    LET ntuples == Len(rows)
        context_limit == IF ntuples < CONTEXT_RESULTS THEN ntuples ELSE CONTEXT_RESULTS
        head == SearchLoop(rows, 1, context_limit,
                           [context_len |-> 0, excerpts |-> <<>>,
                            results |-> <<>>, stopped |-> FALSE])
        later == SelectSeq(SubSeq(rows, context_limit + 1, ntuples),
                           LAMBDA r : r.valid)
        rest == [k \in 1..Len(later) |-> ResultObject(later[k])]
    IN  IF head.stopped THEN head
        ELSE [head EXCEPT !.results = @ \o rest]

\* The status of an error response.  send_json_error passes StatusBadRequest
\* to conn_send_json; where conn_set_status has set a status before
\* (prior # NULL), the server library sends either.
ErrorStatus(prior) ==
    IF prior = NULL THEN {StatusBadRequest} ELSE {prior, StatusBadRequest}

\* A response with the request it answers; cause: the kind of error behind
\* an error response; cached: the body came from the response cache;
\* outbound: the request was sent on to the upstream service.
Response(req, status, body, cause, cached, outbound) ==
    [req |-> req, status |-> status, body |-> body, cause |-> cause,
     cached |-> cached, outbound |-> outbound]

Serving == corpus # "off"

InFlight == Cardinality({h \in Handlers : handler[h].pc # "idle"})

\* A handler starts on thread h.
Accept(h) ==
    /\ Serving
    /\ handler[h].pc = "idle"
    /\ Len(sent) + InFlight < MaxRequests

\* Variant: the error body is stored in the response cache as well.
send_json_error_Cached(req, cause, prior, msg) ==
    /\ \E status \in ErrorStatus(prior) :
          sent' = Append(sent, Response(req, status, [error |-> msg], cause,
                                        FALSE, FALSE))
    /\ response_cache' = cache_set(response_cache, Key("%s", <<req>>),
                                   [error |-> msg])
    /\ UNCHANGED <<ai_cache, handler>>

\* send_json_error, lines 43-47.
send_json_error(req, cause, prior, msg) ==
    /\ \E status \in ErrorStatus(prior) :
          sent' = Append(sent, Response(req, status, [error |-> msg], cause,
                                        FALSE, FALSE))
    /\ UNCHANGED <<response_cache, ai_cache, handler>>

\* send_cache_json, lines 51-54.
send_cache_json(req, body) ==
    /\ sent' = Append(sent, Response(req, StatusOK, body, "none", TRUE, FALSE))
    /\ UNCHANGED <<response_cache, ai_cache, handler>>

\* cache_set of the response and conn_send_json(conn, StatusOK, json_str).
SendAndCache(req, key, body) ==
    /\ response_cache' = cache_set(response_cache, key, body)
    /\ sent' = Append(sent, Response(req, StatusOK, body, "none", FALSE, FALSE))
    /\ UNCHANGED <<ai_cache, handler>>

\* get_page_by_file_and_page, lines 79-152; db_ok: the statement succeeds.
\* The statement takes the text of the page number, and the storage rejects
\* one that is out of the range of pages.page_num, an INTEGER.
GetPage(h, file_id_str, page_num_str, db_ok) ==
    /\ Accept(h)
    /\ LET req == [op |-> "page", a |-> file_id_str, b |-> page_num_str]
           key == cache_make_key(file_id_str.n, IntCast(page_num_str))
           hit == cache_get(response_cache, key)
           found == /\ file_id_str.n \in ServedFiles
                    /\ page_num_str.n \in 1..NumPagesOf(corpus, file_id_str.n)
       IN  IF ~file_id_str.parses
           THEN send_json_error(req, "validation", NULL,
                                "Invalid file ID: must be a valid integer")
           ELSE IF ~page_num_str.parses
           THEN send_json_error(req, "validation", NULL,
                                "Invalid page number: must be a valid integer")
           ELSE IF hit # None THEN send_cache_json(req, hit[1])
           ELSE IF ~db_ok \/ ~FitsInt(page_num_str)
           THEN send_json_error(req, "storage", NULL, "pgconn_error_message")
           ELSE IF ~found
           THEN send_json_error(req, "missing", StatusNotFound,
                    "No page found for the requested file and page number")
           ELSE SendAndCache(req, key,
                    [file_id |-> file_id_str.n, page_num |-> IntCast(page_num_str),
                     text |-> <<file_id_str.n, page_num_str.n>>])
    /\ UNCHANGED <<corpus, api_key>>
    /\ UNCHANGED beside_server

\* get_file_by_id, lines 686-757.
GetFile(h, file_id_str, db_ok) ==
    /\ Accept(h)
    /\ LET req == [op |-> "file", a |-> file_id_str, b |-> Absent]
           key == cache_make_key(file_id_str.n, -1)
           hit == cache_get(response_cache, key)
       IN  IF ~file_id_str.parses
           THEN send_json_error(req, "validation", NULL,
                                "Invalid file ID: must be a valid integer")
           ELSE IF hit # None THEN send_cache_json(req, hit[1])
           ELSE IF ~db_ok
           THEN send_json_error(req, "storage", NULL, "pgconn_error_message")
           ELSE IF file_id_str.n \notin ServedFiles
           THEN send_json_error(req, "missing", StatusNotFound,
                                "No book matches the requested ID")
           ELSE SendAndCache(req, key,
                    [id |-> file_id_str.n, name |-> file_id_str.n,
                     path |-> file_id_str.n,
                     num_pages |-> NumPagesOf(corpus, file_id_str.n)])
    /\ UNCHANGED <<corpus, api_key>>
    /\ UNCHANGED beside_server

\* render_pdf_page_as_png, lines 154-224; raster_ok: the raster library
\* renders and encodes the page.  str_to_int rejects a page number that is
\* out of the range of an int.
RenderPage(h, file_id_str, page_num_str, db_ok, raster_ok) ==
    /\ Accept(h)
    /\ LET req == [op |-> "render", a |-> file_id_str, b |-> page_num_str]
           key == Key("render-page:file:%lld:page:%d",
                      <<file_id_str.n, page_num_str.n>>)
           hit == cache_get(response_cache, key)
           rendered == /\ raster_ok
                       /\ page_num_str.n - 1 < NumPagesOf(corpus, file_id_str.n)
       IN  IF ~file_id_str.parses
           THEN send_json_error(req, "validation", NULL,
                                "Invalid file ID: must be a valid integer")
           ELSE IF ~page_num_str.parses \/ ~FitsInt(page_num_str)
           THEN send_json_error(req, "validation", NULL,
                                "Invalid page number: must be a valid integer")
           ELSE IF hit # None THEN send_cache_json(req, hit[1])
           ELSE IF ~db_ok
           THEN send_json_error(req, "storage", NULL, "pgconn_error_message")
           ELSE IF file_id_str.n \notin ServedFiles
           THEN send_json_error(req, "missing", StatusNotFound,
                                "No file found for the requested file")
           ELSE IF page_num_str.n < 1
           THEN send_json_error(req, "validation", NULL, "Page out of range")
           ELSE IF rendered
           THEN SendAndCache(req, key,
                    [png |-> <<file_id_str.n, page_num_str.n>>])
           ELSE send_json_error(req,
                    IF raster_ok THEN "missing" ELSE "raster",
                    StatusInternalServerError, "Error writing PNG image")
    /\ UNCHANGED <<corpus, api_key>>
    /\ UNCHANGED beside_server

\* What str_to_int leaves in *out, which held dflt: the number it parsed, or
\* on a failure, which list_files does not look at, dflt or a zero.
str_to_int(str, dflt) == IF str.parses THEN {str.n} ELSE {dflt, 0}

\* int offset = (page - 1) * page_size, line 571.  A product beyond INT_MAX is
\* undefined: the build leaves some int, here a negative one, zero or a
\* positive one.
Offset(page, page_size) ==
    IF page - 1 > INT_MAX \div page_size
    THEN {-page_size, 0, INT_MAX}
    ELSE {(page - 1) * page_size}

\* Variant: a limit below 1 becomes 1.
ClampLimit_ToOne(page_size) ==
    IF page_size < 1 THEN 1 ELSE IF page_size > 100 THEN 100 ELSE page_size

\* Lines 527-532.
ClampLimit(page_size) ==
    IF page_size < 1 THEN 25 ELSE IF page_size > 100 THEN 100 ELSE page_size

\* list_files, lines 505-683, for a request without a name filter.  The
\* storage rejects a negative OFFSET.
ListFiles(h, page_str, page_size_str, db_ok) ==
    /\ Accept(h)
    /\ \E page0 \in (IF page_str.given THEN str_to_int(page_str, 1) ELSE {1}),
          size0 \in (IF page_size_str.given THEN str_to_int(page_size_str, 10)
                                            ELSE {10}) :
          \E offset \in Offset(IF page0 < 1 THEN 1 ELSE page0, ClampLimit(size0)) :
          LET req == [op |-> "list", a |-> page_str, b |-> page_size_str]
              page == IF page0 < 1 THEN 1 ELSE page0
              page_size == ClampLimit(size0)
              key == Key("list:p%d:l%d", <<page, page_size>>)
              hit == cache_get(response_cache, key)
              total_count == Cardinality(ServedFiles)
              shown == {f \in ServedFiles : offset < f /\ f - offset <= page_size}
              pages == (total_count + page_size - 1) \div page_size
              total_pages == IF pages = 0 THEN 1 ELSE pages
          IN  IF hit # None THEN send_cache_json(req, hit[1])
              ELSE IF ~db_ok \/ offset < 0
              THEN send_json_error(req, "storage", NULL, "pgconn_error_message")
              ELSE SendAndCache(req, key,
                       [results |-> shown, page |-> page, limit |-> page_size,
                        total_count |-> total_count,
                        has_next |-> page < total_pages, has_prev |-> page > 1,
                        total_pages |-> total_pages])
    /\ UNCHANGED <<corpus, api_key>>
    /\ UNCHANGED beside_server

\* The end of pdf_search, lines 456-497, with the ai_summary member as
\* summary (None: null); thread h goes back to its pool.
SearchEnd(h, req, results, summary, outbound) ==
    LET body == [results |-> results, count |-> Len(results),
                 query |-> req.a.n, ai_summary |-> summary]
    IN  /\ response_cache' = cache_set(response_cache,
                                       SearchKey(req.a.n, req.b), body)
        /\ sent' = Append(sent, Response(req, StatusOK, body, "none", FALSE,
                                         outbound))
        /\ handler' = [handler EXCEPT ![h] = NoWork]

\* Line 464.
WantsSummary(key, ntuples, context_len, fileId) ==
    key /\ ntuples > 0 /\ context_len > 0 /\ ~fileId.given

\* pdf_search from line 231 to the call of get_ai_summary in line 466, or to
\* its end where it makes no such call.
SearchBegin(h, query, fileId, db_ok) ==
    /\ Accept(h)
    /\ LET req == [op |-> "search", a |-> query, b |-> fileId]
           hit == cache_get(response_cache, SearchKey(query.n, fileId))
           rows == search_query(corpus, query.n, fileId)
           built == BuildResults(rows)
       IN  IF ~query.given
           THEN send_json_error(req, "validation", NULL, "Missing search query")
           ELSE IF hit # None THEN send_cache_json(req, hit[1])
           ELSE IF ~db_ok \/ (fileId.given /\ ~fileId.parses)
           THEN send_json_error(req, "storage", NULL, "pgconn_error_message")
           ELSE IF WantsSummary(api_key, Len(rows), built.context_len, fileId)
           THEN /\ handler' = [handler EXCEPT ![h] =
                       [pc |-> "ai_lookup", req |-> req,
                        results |-> built.results,
                        context_len |-> built.context_len,
                        excerpts |-> built.excerpts]]
                /\ UNCHANGED <<response_cache, ai_cache, sent>>
           ELSE /\ SearchEnd(h, req, built.results, None, FALSE)
                /\ UNCHANGED ai_cache
    /\ UNCHANGED <<corpus, api_key>>
    /\ UNCHANGED beside_server

\* The key of the summary cache is the query (line 297).
AiKey(q) == Key("%s", <<q>>)

\* get_ai_summary, lines 287-300: the look into the summary cache.
AiLookup(h) ==
    /\ handler[h].pc = "ai_lookup"
    /\ LET w == handler[h]
           hit == cache_get(ai_cache, AiKey(w.req.a.n))
       IN  IF hit # None
           THEN /\ SearchEnd(h, w.req, w.results, hit, FALSE)
                /\ UNCHANGED ai_cache
           ELSE /\ handler' = [handler EXCEPT ![h].pc = "ai_call"]
                /\ UNCHANGED <<response_cache, ai_cache, sent>>
    /\ UNCHANGED <<corpus, api_key>>
    /\ UNCHANGED beside_server

\* Variant: a failed call stores an empty summary.
StoreSummary_Always(c, q, outcome, text) ==
    cache_set(c, AiKey(q), IF outcome = "ok" THEN text ELSE "null")

\* Lines 344-351: the summary is stored when there is one.
StoreSummary(c, q, outcome, text) ==
    IF outcome = "ok" THEN cache_set(c, AiKey(q), text) ELSE c

\* get_ai_summary, lines 302-354: the request to the upstream service has
\* returned.  outcome: "ok" with text, or the failure: "transport" (curl),
\* "status" (not 200) or "json" (no text at the path in the answer).
AiCall(h, outcome, text) ==
    /\ handler[h].pc = "ai_call"
    /\ LET w == handler[h]
       IN  /\ ai_cache' = StoreSummary(ai_cache, w.req.a.n, outcome, text)
           /\ SearchEnd(h, w.req, w.results,
                        IF outcome = "ok" THEN Some(text) ELSE None, TRUE)
    /\ UNCHANGED <<corpus, api_key>>
    /\ UNCHANGED beside_server

\* An entry of a cache goes: its time-to-live is over, or it is evicted.
CacheExpire ==
    /\ Serving
    /\ \/ \E e \in response_cache :
             /\ response_cache' = response_cache \ {e}
             /\ UNCHANGED ai_cache
       \/ \E e \in ai_cache :
             /\ ai_cache' = ai_cache \ {e}
             /\ UNCHANGED response_cache
    /\ UNCHANGED <<corpus, api_key, handler, sent>>
    /\ UNCHANGED beside_server

Corpora == {"notes", "library"}

\* The parameters the clients send.
FileParams == {Num(1), Num(Cardinality(ServedFiles) + 1), Garbage}
PageParams == {Num(-1), Num(0), Num(1), Num(MaxPages + 1), Wide(1), Garbage}
FilterParams == {Absent, Num(1)}
QueryParams == {Absent} \cup {Num(q) : q \in Queries}
ListPageParams == {Absent, Num(0), Num(2), Num(INT_MAX)}
LimitParams == {Absent, Num(0), Num(1), Num(999), Garbage}
AiOutcomes == {"ok", "transport", "status", "json"}

ServeInit ==
    /\ CacheInit(RaceKeys, VOID) /\ IndexerState(FALSE, FALSE, "fresh")
    /\ \E c \in Corpora, key \in BOOLEAN : ServerState(c, key)
    /\ RasterState /\ CleanerOff /\ PoolOff /\ PagesOff

ServeNext ==
    \/ \E h \in Handlers, query \in QueryParams, fileId \in FilterParams,
          db_ok \in BOOLEAN : SearchBegin(h, query, fileId, db_ok)
    \/ \E h \in Handlers : AiLookup(h)
    \/ \E h \in Handlers, outcome \in AiOutcomes, text \in Summaries :
          AiCall(h, outcome, text)
    \/ \E h \in Handlers, f \in FileParams, p \in PageParams, db_ok \in BOOLEAN :
          GetPage(h, f, p, db_ok)
    \/ \E h \in Handlers, f \in FileParams, db_ok \in BOOLEAN : GetFile(h, f, db_ok)
    \/ \E h \in Handlers, f \in FileParams, p \in PageParams,
          db_ok \in BOOLEAN, raster_ok \in BOOLEAN :
          RenderPage(h, f, p, db_ok, raster_ok)
    \/ \E h \in Handlers, page_str \in ListPageParams,
          page_size_str \in LimitParams, db_ok \in BOOLEAN :
          ListFiles(h, page_str, page_size_str, db_ok)
    \/ CacheExpire

SpecServe == ServeInit /\ [][ServeNext]_vars

(***************************************************************************)
(* Part IV.  The raster adapter of src/src/pdf.c: render_page_to_buffer,   *)
(* which render_page_from_document_to_buffer calls for the page it has     *)
(* opened.  render[t].pc names the call of the raster library that thread  *)
(* t is inside; a step is the return of that call with what the code does  *)
(* up to the next call.                                                    *)
(***************************************************************************)

\* Lines 158-176: the checks of the parameters, LOCK_CAIRO_MUTEX(), and the
\* call of cairo_image_surface_create.
RenderLock(t, dims_ok) ==
    /\ render[t].pc = "idle"
    /\ render[t].calls < MaxRenders
    /\ IF dims_ok
       THEN /\ cairo_mutex = NULL
            /\ cairo_mutex' = t
            /\ render' = [render EXCEPT ![t].pc = "cairo_image_surface_create",
                                        ![t].calls = @ + 1,
                                        ![t].result = None]
       ELSE /\ render' = [render EXCEPT ![t].calls = @ + 1,
                                        ![t].result = Some(FALSE)]
            /\ UNCHANGED cairo_mutex
    /\ UNCHANGED beside_raster

\* Lines 177-183: the surface is there, or the call returns false.
SurfaceCreated(t, ok) ==
    /\ render[t].pc = "cairo_image_surface_create"
    /\ IF ok
       THEN /\ render' = [render EXCEPT ![t].pc = "cairo_create",
                                        ![t].surface = "live"]
            /\ UNCHANGED cairo_mutex
       ELSE /\ render' = [render EXCEPT ![t].pc = "idle",
                                        ![t].result = Some(FALSE)]
            /\ cairo_mutex' = NULL
    /\ UNCHANGED beside_raster

\* Lines 184-204: the context is there and the page is being drawn, or the
\* surface is destroyed and the call returns false.
ContextCreated(t, ok) ==
    /\ render[t].pc = "cairo_create"
    /\ IF ok
       THEN /\ render' = [render EXCEPT ![t].pc = "poppler_page_render",
                                        ![t].cr = "live"]
            /\ UNCHANGED cairo_mutex
       ELSE /\ render' = [render EXCEPT ![t].pc = "idle",
                                        ![t].surface = "destroyed",
                                        ![t].result = Some(FALSE)]
            /\ cairo_mutex' = NULL
    /\ UNCHANGED beside_raster

\* Lines 204-212: the page is drawn, UNLOCK_CAIRO_MUTEX() of line 206 releases
\* the mutex, and the surface is being written as PNG.
PageRendered(t) ==
    /\ render[t].pc = "poppler_page_render"
    /\ cairo_mutex' = NULL
    /\ render' = [render EXCEPT ![t].pc = "cairo_surface_write_to_png_stream"]
    /\ UNCHANGED beside_raster

\* Lines 212-215: the PNG is written or not, and the context and the surface
\* are being destroyed.
PngWritten(t, ok) ==
    /\ render[t].pc = "cairo_surface_write_to_png_stream"
    /\ render' = [render EXCEPT ![t].pc = "cairo_destroy",
                                ![t].result = Some(ok)]
    /\ UNCHANGED cairo_mutex
    /\ UNCHANGED beside_raster

\* Lines 214-227: context and surface are gone; the call returns.
Destroyed(t) ==
    /\ render[t].pc = "cairo_destroy"
    /\ render' = [render EXCEPT ![t].pc = "idle", ![t].surface = "destroyed",
                                ![t].cr = "destroyed"]
    /\ UNCHANGED cairo_mutex
    /\ UNCHANGED beside_raster

RasterInit ==
    /\ CacheInit(RaceKeys, VOID) /\ IndexerState(FALSE, FALSE, "fresh")
    /\ ServerOff /\ RasterState /\ CleanerOff /\ PoolOff /\ PagesOff

RasterNext ==
    \/ \E t \in Threads, dims_ok \in BOOLEAN : RenderLock(t, dims_ok)
    \/ \E t \in Threads, ok \in BOOLEAN : SurfaceCreated(t, ok)
    \/ \E t \in Threads, ok \in BOOLEAN : ContextCreated(t, ok)
    \/ \E t \in Threads : PageRendered(t)
    \/ \E t \in Threads, ok \in BOOLEAN : PngWritten(t, ok)
    \/ \E t \in Threads : Destroyed(t)

SpecRaster == RasterInit /\ [][RasterNext]_vars

(***************************************************************************)
(* Part V.  The text cleaner of src/src/pdf_preprocess.c (pdf_text_clean   *)
(* with validate_utf8_sequence, is_pdf_artifact and the page classifiers)  *)
(* and the page step of the indexer that calls it (process_all_pages of    *)
(* src/src/cli.c, lines 56-84).  A buffer is a sequence of bytes 0..255    *)
(* that ends with its NUL; the byte text[i] of the code is At(text, i).    *)
(* The main loop of pdf_text_clean is taken one turn at a time.            *)
(***************************************************************************)

At(text, i) == text[i + 1]

\* text[write_pos] = b
Put(text, write_pos, b) == [text EXCEPT ![write_pos + 1] = b]

\* <ctype.h> in the C locale.
isspace(c) == c \in {9, 10, 11, 12, 13, 32}
isdigit(c) == c \in 48..57
isalnum(c) == isdigit(c) \/ c \in 65..90 \/ c \in 97..122

\* isspace(text[read_pos + 1]) of line 570 is handed a plain char: a byte of
\* 0x80 and more arrives as a negative value, for which isspace is undefined.
isspace_of_char(b) == IF b >= 128 THEN BOOLEAN ELSE {isspace(b)}

\* strlen: the bytes before the first NUL of the buffer.
strlen(text) ==
    (CHOOSE k \in 1..Len(text) :
        text[k] = 0 /\ \A j \in 1..(k - 1) : text[j] # 0) - 1

\* The C string a buffer holds.
CString(text) == SubSeq(text, 1, strlen(text))

\* strncmp(&text[pos], lit, strlen(lit)) == 0
StartsWith(text, pos, lit) ==
    \A k \in 1..Len(lit) : pos + k <= Len(text) /\ text[pos + k] = lit[k]

\* lo <= b && b <= hi
InRange(b, lo, hi) == b >= lo /\ b <= hi

\* Variant: the lead byte of a 3-byte sequence is taken with the two bytes
\* that follow it, whatever they are.
validate_utf8_sequence_Lax(text, pos, len) ==
    LET byte == At(text, pos) IN
    IF byte <= 127
    THEN [ok |-> ~(byte < 32 /\ byte \notin {9, 10, 13}), bytes_consumed |-> 1]
    ELSE IF InRange(byte, 224, 239) /\ pos + 2 < len
    THEN [ok |-> TRUE, bytes_consumed |-> 3]
    ELSE [ok |-> FALSE, bytes_consumed |-> 1]

\* Lines 16-99.
validate_utf8_sequence(text, pos, len) ==
    LET byte == At(text, pos)
        byte2 == At(text, pos + 1)
        byte3 == At(text, pos + 2)
        byte4 == At(text, pos + 3)
        valid3 ==
            IF byte = 224 THEN InRange(byte2, 160, 191) /\ InRange(byte3, 128, 191)
            ELSE IF byte = 237 THEN InRange(byte2, 128, 159) /\ InRange(byte3, 128, 191)
            ELSE InRange(byte2, 128, 191) /\ InRange(byte3, 128, 191)
        valid4 ==
            IF byte = 240
            THEN InRange(byte2, 144, 191) /\ InRange(byte3, 128, 191)
                 /\ InRange(byte4, 128, 191)
            ELSE IF byte = 244
            THEN InRange(byte2, 128, 143) /\ InRange(byte3, 128, 191)
                 /\ InRange(byte4, 128, 191)
            ELSE InRange(byte2, 128, 191) /\ InRange(byte3, 128, 191)
                 /\ InRange(byte4, 128, 191)
    IN
    IF byte <= 127
    THEN [ok |-> ~(byte < 32 /\ byte \notin {9, 10, 13}), bytes_consumed |-> 1]
    ELSE IF InRange(byte, 194, 223)
    THEN IF pos + 1 < len /\ InRange(byte2, 128, 191)
         THEN [ok |-> TRUE, bytes_consumed |-> 2]
         ELSE [ok |-> FALSE, bytes_consumed |-> 1]
    ELSE IF InRange(byte, 224, 239)
    THEN IF pos + 2 < len /\ valid3
         THEN [ok |-> TRUE, bytes_consumed |-> 3]
         ELSE [ok |-> FALSE, bytes_consumed |-> 1]
    ELSE IF InRange(byte, 240, 244)
    THEN IF pos + 3 < len /\ valid4
         THEN [ok |-> TRUE, bytes_consumed |-> 4]
         ELSE [ok |-> FALSE, bytes_consumed |-> 1]
    ELSE [ok |-> FALSE, bytes_consumed |-> 1]

\* Lines 109-132: U+FFFD (EF BF BD), U+200B..U+200D (E2 80 8B..8D) and
\* U+2060 (E2 81 A0).
is_pdf_artifact(text, pos, len) ==
    LET c == At(text, pos)
        c1 == At(text, pos + 1)
        c2 == At(text, pos + 2)
    IN
    IF c = 239 /\ pos + 2 < len /\ c1 = 191 /\ c2 = 189
    THEN [found |-> TRUE, skip_bytes |-> 3]
    ELSE IF c = 226 /\ pos + 2 < len
            /\ ((c1 = 128 /\ c2 \in {139, 140, 141}) \/ (c1 = 129 /\ c2 = 160))
    THEN [found |-> TRUE, skip_bytes |-> 3]
    ELSE [found |-> FALSE, skip_bytes |-> 0]

\* line_count of lines 174-241 and 314-391: the lines of text[0..len) that are
\* not empty.
LineCount(text, len) ==
    Cardinality({i \in 1..len :
        (i = len \/ At(text, i) = 10) /\ At(text, i - 1) # 10})

\* Lines 141-279: the verdicts the call can give.  Under 50 bytes or under 3
\* lines the answer is false; a text that starts with one of the headers of
\* lines 161-171 is a reference page or an index page; otherwise the answer
\* is decided by the ratios of lines 247-278, which are not evaluated here.
is_reference_page(text, len) ==
    IF len < 50 \/ LineCount(text, len) < 3 THEN {FALSE}
    ELSE IF \E header \in {<<82, 101, 102, 101, 114, 101, 110, 99, 101, 115>>,
                           <<82, 69, 70, 69, 82, 69, 78, 67, 69, 83>>,
                           <<66, 105, 98, 108, 105, 111, 103, 114, 97, 112, 104, 121>>,
                           <<66, 73, 66, 76, 73, 79, 71, 82, 65, 80, 72, 89>>,
                           <<73, 110, 100, 101, 120>>, <<73, 78, 68, 69, 88>>} :
               StartsWith(text, 0, header)
    THEN {TRUE}
    ELSE BOOLEAN

\* Lines 289-428: false under 50 bytes or under 5 lines, true with the header
\* "Index" or "INDEX" of lines 306-310, otherwise decided by the ratios of
\* lines 397-425.
is_index_page(text, len) ==
    IF len < 50 \/ LineCount(text, len) < 5 THEN {FALSE}
    ELSE IF \E header \in {<<73, 110, 100, 101, 120>>, <<73, 78, 68, 69, 88>>} :
               StartsWith(text, 0, header)
    THEN {TRUE}
    ELSE BOOLEAN

\* The call pdf_text_clean(text, len, remove_urls) at its entry.  by: "page"
\* for the call of process_all_pages, "direct" otherwise; pass and first: the
\* number of the call on this text and what the call before it returned.
CleanCall(text, len, remove_urls, by, pass, first) ==
    [pc |-> "call", text |-> text, len |-> len, remove_urls |-> remove_urls,
     write_pos |-> 0, read_pos |-> 0, prev_was_space |-> TRUE,
     in_url |-> FALSE, by |-> by, pass |-> pass, first |-> first,
     given |-> CString(text), result |-> None]

\* Lines 470-479: the position after a leading page number.
LeadingNumber(text, len) ==
    LET stops == {k \in 0..Min(len, 10) :
                     k = len \/ k = 10
                     \/ ~(isdigit(At(text, k)) \/ isspace(At(text, k)))}
        skip == CHOOSE k \in stops : \A j \in stops : k <= j
    IN IF isdigit(At(text, 0)) /\ skip > 0 /\ skip < 10 THEN skip ELSE 0

\* Lines 482-484 and 487-489: the first position from pos on whose byte is
\* not in the set skipped, len if there is none.
SkipWhile(text, pos, len, skipped) ==
    LET stops == {k \in pos..len : k = len \/ At(text, k) \notin skipped}
    IN CHOOSE k \in stops : \A j \in stops : k <= j

\* Lines 463-489 of pdf_text_clean: the locals and the leading skips.
CleanBegin ==
    /\ clean.pc = "call"
    /\ clean.len > 0
    /\ LET text == clean.text
           len == clean.len
           after_number == LeadingNumber(text, len)
           after_space == SkipWhile(text, after_number, len, {9, 10, 11, 12, 13, 32})
           after_dashes == SkipWhile(text, after_space, len, {45, 46})
       IN clean' = [clean EXCEPT !.pc = "loop", !.read_pos = after_dashes]
    /\ UNCHANGED beside_cleaner

\* Lines 510-513 and 539-542: one space, unless a space was written last.
Separator(s) ==
    IF ~s.prev_was_space
    THEN [s EXCEPT !.text = Put(s.text, s.write_pos, 32),
                   !.write_pos = s.write_pos + 1,
                   !.prev_was_space = TRUE]
    ELSE s

\* Lines 503-504.
UrlStart(s, c) ==
    /\ c = 104
    /\ s.read_pos + 6 < s.len
    /\ \/ StartsWith(s.text, s.read_pos, <<104, 116, 116, 112, 58, 47, 47>>)
       \/ StartsWith(s.text, s.read_pos, <<104, 116, 116, 112, 115, 58, 47, 47>>)

\* Line 527: the bytes the look-ahead counts as dashes, c being the byte the
\* look-ahead started at.
CountsAsDash(ahead, c) == ahead = 45 \/ c = 46

\* Lines 523-533: where the look-ahead stops and what it has counted.
Lookahead(text, read_pos, len, c) ==
    LET limit == Min(len, read_pos + 100)
        stops == {j \in read_pos..limit :
                     j = limit
                     \/ (~CountsAsDash(At(text, j), c) /\ ~isspace(At(text, j)))}
        lookahead == CHOOSE j \in stops : \A k \in stops : j <= k
    IN [lookahead |-> lookahead,
        dash_count |-> Cardinality({j \in read_pos..(lookahead - 1) :
                                       CountsAsDash(At(text, j), c)})]

\* Lines 578-581: the sequence of n bytes at read_pos is copied to write_pos,
\* byte by byte (write_pos <= read_pos).
Copy(s, n) ==
    [s EXCEPT !.text = [k \in 1..Len(s.text) |->
                           IF k - 1 >= s.write_pos /\ k - 1 < s.write_pos + n
                           THEN s.text[k - s.write_pos + s.read_pos]
                           ELSE s.text[k]],
              !.write_pos = s.write_pos + n,
              !.read_pos = s.read_pos + n,
              !.prev_was_space = FALSE]

\* Lines 492-585: one turn of the main loop, as the set of the states it can
\* leave.
Turn(s) ==
    LET text == s.text
        len == s.len
        r == s.read_pos
        c == At(text, r)
        art == is_pdf_artifact(text, r, len)
        in_url == s.remove_urls /\ (s.in_url \/ UrlStart(s, c))
        la == Lookahead(text, r, len, c)
        v == validate_utf8_sequence(text, r, len)
        next_is_space == IF r + 1 >= len THEN {TRUE}
                         ELSE isspace_of_char(At(text, r + 1))
    IN
    IF art.found
    THEN {[s EXCEPT !.read_pos = r + art.skip_bytes]}
    ELSE IF in_url
    THEN {[(IF isspace(c) \/ c \in {41, 93, 62}
            THEN [Separator(s) EXCEPT !.in_url = FALSE]
            ELSE [s EXCEPT !.in_url = TRUE]) EXCEPT !.read_pos = r + 1]}
    ELSE IF (c = 45 \/ c = 46) /\ r + 10 < len /\ la.dash_count >= 10
    THEN {[Separator(s) EXCEPT !.read_pos = la.lookahead]}
    ELSE IF ~v.ok
    THEN {[s EXCEPT !.read_pos =
              r + (IF v.bytes_consumed > 0 THEN v.bytes_consumed ELSE 1)]}
    ELSE IF isspace(c)
    THEN IF s.prev_was_space
         THEN {[s EXCEPT !.read_pos = r + 1]}
         ELSE IF c = 10 /\ r + 1 < len /\ At(text, r + 1) = 10
         THEN {[s EXCEPT !.text = Put(Put(text, s.write_pos, 10),
                                      s.write_pos + 1, 10),
                         !.write_pos = s.write_pos + 2,
                         !.prev_was_space = TRUE,
                         !.read_pos = r + 2]}
         ELSE {[Separator(s) EXCEPT !.read_pos = r + 1]}
    ELSE IF ~isalnum(c) /\ ~s.prev_was_space /\ v.bytes_consumed = 1
            /\ c \in {124, 126, 94, 96}
    THEN {IF n THEN [s EXCEPT !.read_pos = r + 1] ELSE Copy(s, v.bytes_consumed) :
             n \in next_is_space}
    ELSE {Copy(s, v.bytes_consumed)}

\* Line 491: the loop goes on.
InLoop(s) == s.read_pos < s.len /\ At(s.text, s.read_pos) # 0

CleanIter ==
    /\ clean.pc = "loop"
    /\ InLoop(clean)
    /\ clean' \in Turn(clean)
    /\ UNCHANGED beside_cleaner

\* Lines 599-601 and 604-606: write_pos after the trailing bytes of the set
\* trimmed are dropped.
TrimWhile(text, write_pos, trimmed) ==
    LET stops == {k \in 0..write_pos : k = 0 \/ At(text, k - 1) \notin trimmed}
    IN CHOOSE k \in stops : \A j \in stops : k >= j

\* Lines 598-616.
Trimmed(text, write_pos) ==
    LET no_space == TrimWhile(text, write_pos, {9, 10, 11, 12, 13, 32})
        no_dash == TrimWhile(text, no_space, {45, 46})
        ended == Put(text, no_dash, 0)
    IN IF no_dash < 3 THEN Put(ended, 0, 0) ELSE ended

\* Lines 588-616: the classification, the trims and the return.
CleanEnd ==
    /\ clean.pc = "loop"
    /\ ~InLoop(clean)
    /\ \E reference \in is_reference_page(clean.text, clean.write_pos),
          index \in is_index_page(clean.text, clean.write_pos) :
          LET text == IF clean.write_pos > 100 /\ (reference \/ index)
                      THEN Put(clean.text, 0, 0)
                      ELSE Trimmed(clean.text, clean.write_pos)
          IN clean' = [clean EXCEPT !.pc = "done", !.text = text,
                                    !.result = Some(CString(text))]
    /\ UNCHANGED beside_cleaner

\* pdf_text_clean is applied to the text it has returned.
CleanAgain ==
    /\ clean.pc = "done"
    /\ clean.by = "direct"
    /\ clean.pass = 1
    /\ clean.result # Some(<<>>)
    /\ LET text == clean.result[1] \o <<0>>
       IN clean' = CleanCall(text, strlen(text), clean.remove_urls, "direct",
                             2, clean.result)
    /\ UNCHANGED beside_cleaner

\* A page as poppler_page_get_text returns it, before process_all_pages has
\* looked at it.
Extracted(text) ==
    [CleanCall(text, 0, FALSE, "page", 1, None) EXCEPT !.pc = "extracted"]

\* Lines 56-73 of src/src/cli.c: a page without text is passed over; a text
\* of 2047 bytes and more gets a NUL at offset 2046, and the cleaner is
\* called with the length the text had before.
CleanPage ==
    /\ clean.pc = "extracted"
    /\ IF At(clean.text, 0) = 0
       THEN clean' = [clean EXCEPT !.pc = "skipped"]
       ELSE LET len == strlen(clean.text)
                text == IF len >= TOKENIZER_LIMIT + 1
                        THEN Put(clean.text, TOKENIZER_LIMIT, 0)
                        ELSE clean.text
            IN clean' = [clean EXCEPT !.pc = "call", !.text = text, !.len = len]
    /\ UNCHANGED beside_cleaner

\* Lines 81-84 of src/src/cli.c: the text is values[2] of the INSERT.
PageInsert ==
    /\ clean.pc = "done"
    /\ clean.by = "page"
    /\ clean' = [clean EXCEPT !.pc = "inserted"]
    /\ UNCHANGED beside_cleaner

\* The pieces the texts given to the cleaner are made of: a letter, a space,
\* a newline, '-', '.', a digit, '|', the control byte 0x01, U+00E9, U+200B,
\* U+FFFD, a lead byte without its continuation, "http://", ')' and a run of
\* ten dashes.
Pieces ==
    { <<97>>, <<32>>, <<10>>, <<45>>, <<46>>, <<49>>, <<124>>, <<1>>,
      <<195, 169>>, <<226, 128, 139>>, <<239, 191, 189>>, <<226>>,
      <<104, 116, 116, 112, 58, 47, 47>>, <<41>>,
      <<45, 45, 45, 45, 45, 45, 45, 45, 45, 45>> }

RECURSIVE Joined(_)
Joined(pieces) ==
    IF pieces = <<>> THEN <<>> ELSE Head(pieces) \o Joined(Tail(pieces))

\* The texts of one to MaxPieces pieces, NUL-terminated.
ShortTexts ==
    {Joined(ps) \o <<0>> : ps \in UNION {[1..n -> Pieces] : n \in 1..MaxPieces}}

\* A page of n letters with a '.' at offset DotOffset when dotted.
Page(n, dotted) ==
    [k \in 1..(n + 1) |->
        IF k = n + 1 THEN 0
        ELSE IF dotted /\ k = DotOffset + 1 THEN 46
        ELSE 97]

\* An empty page, pages of the tokenizer limit and one byte more, and a page
\* that goes well beyond it.
PageTexts ==
    {Page(n, dotted) :
        n \in {0, TOKENIZER_LIMIT, TOKENIZER_LIMIT + 1, LongPage},
        dotted \in BOOLEAN}

\* The text "\x01Hello\xEF\xBF\xBDworld   http://x.y)\n\n\nfoo---------- bar".
MixedText ==
    <<1, 72, 101, 108, 108, 111, 239, 191, 189, 119, 111, 114, 108, 100,
      32, 32, 32, 104, 116, 116, 112, 58, 47, 47, 120, 46, 121, 41, 10, 10,
      10, 102, 111, 111, 45, 45, 45, 45, 45, 45, 45, 45, 45, 45, 32, 98,
      97, 114>>

\* "References"
ReferencesHeader ==
    <<82, 101, 102, 101, 114, 101, 110, 99, 101, 115>>

\* "Doe et al. (2021)" and the same without its '.'
CitationLine ==
    <<68, 111, 101, 32, 101, 116, 32, 97, 108, 46, 32, 40, 50, 48, 50, 49,
      41>>

PlainCitationLine ==
    <<68, 111, 101, 32, 101, 116, 32, 97, 108, 32, 40, 50, 48, 50, 49, 41>>

RECURSIVE Repeated(_, _)
Repeated(s, n) == IF n = 0 THEN <<>> ELSE s \o Repeated(s, n - 1)

\* A block of 1 + ReferenceLines lines: the header, then the line given on
\* each of the lines that follow, every line ended by the separator.
Block(line, separator) ==
    ReferencesHeader \o separator \o Repeated(line \o separator, ReferenceLines)

\* "foo.barbazquxquux": a '.' between words.
DottedWords ==
    <<102, 111, 111, 46, 98, 97, 114, 98, 97, 122, 113, 117, 120, 113, 117,
      117, 120>>

\* "foo-barbazquxquux": a '-' between words.
HyphenatedWords ==
    <<102, 111, 111, 45, 98, 97, 114, 98, 97, 122, 113, 117, 120, 113, 117,
      117, 120>>

\* Texts given to the cleaner besides the short ones: the mixed text, the
\* reference blocks with lines and with paragraphs, and the joined words.
NamedTexts ==
    {t \o <<0>> : t \in {MixedText, DottedWords, HyphenatedWords,
                         Block(CitationLine, <<10>>),
                         Block(PlainCitationLine, <<10>>),
                         Block(PlainCitationLine, <<10, 10>>)}}

CleanInit ==
    /\ CacheInit(RaceKeys, VOID) /\ IndexerState(FALSE, FALSE, "fresh")
    /\ ServerOff /\ RasterState /\ PoolOff /\ PagesOff
    /\ clean \in
         {CleanCall(text, strlen(text), remove_urls, "direct", 1, None) :
             text \in ShortTexts \cup NamedTexts, remove_urls \in BOOLEAN}
         \cup {Extracted(text) : text \in PageTexts}

CleanNext ==
    \/ CleanPage
    \/ CleanBegin
    \/ CleanIter
    \/ CleanEnd
    \/ CleanAgain
    \/ PageInsert

SpecClean == CleanInit /\ [][CleanNext]_vars

(***************************************************************************)
(* Part VI.  The connection pool of src/src/database.c.  init_connections  *)
(* is taken one turn of its loops at a time, close_connections likewise.   *)
(* pgconn_create returns a handle at an address that holds no live handle, *)
(* or NULL; pgconn_destroy of NULL is taken to return.                     *)
(***************************************************************************)

\* i - 1 on size_t, line 95: below zero it wraps to SIZE_MAX, which is above
\* every index a run reaches.
Pred(i) == [wraps |-> i = 0, n |-> IF i = 0 THEN 0 ELSE i - 1]

\* j < i - 1, line 95.
Below(j, limit) == limit.wraps \/ j < limit.n

LiveAddrs == {connections[w] : w \in WorkerIndexes} \ {NULL}

\* pgconn_destroy(connections[j]) for j inside the array.
DestroyAt(j) ==
    IF connections[j] = NULL
    THEN startup.destroys
    ELSE [startup.destroys EXCEPT ![connections[j]] = @ + 1]

\* A turn of the loop of lines 85-91; created: what pgconn_create returns.
CreateStep(created) ==
    /\ startup.pc = "create"
    /\ created \notin LiveAddrs
    /\ connections' = [connections EXCEPT ![startup.i] = created]
    /\ startup' =
          IF created = NULL
          THEN [startup EXCEPT !.pc = "unwind", !.j = 0]
          ELSE [startup EXCEPT !.i = @ + 1,
                               !.pc = IF startup.i + 1 = NUM_WORKERS
                                      THEN "ready" ELSE "create"]
    /\ UNCHANGED beside_pool

\* A turn of the loop of lines 95-97.  connections[j] for j beyond the array
\* is undefined: the run ends there, or goes on with what it has read.
UnwindStep(survives) ==
    /\ startup.pc = "unwind"
    /\ Below(startup.j, Pred(startup.i))
    /\ IF startup.j < NUM_WORKERS
       THEN startup' = [startup EXCEPT !.destroys = DestroyAt(startup.j),
                                       !.j = @ + 1]
       ELSE IF survives /\ startup.stray < MaxStray
       THEN startup' = [startup EXCEPT !.stray = @ + 1, !.j = @ + 1]
       ELSE startup' = [startup EXCEPT !.pc = "crashed"]
    /\ UNCHANGED connections
    /\ UNCHANGED beside_pool

\* exit(EXIT_FAILURE), line 98.
ExitFailure ==
    /\ startup.pc = "unwind"
    /\ ~Below(startup.j, Pred(startup.i))
    /\ startup' = [startup EXCEPT !.pc = "exited"]
    /\ UNCHANGED connections
    /\ UNCHANGED beside_pool

\* A turn of the loop of close_connections, lines 103-105.
CloseStep ==
    /\ startup.pc \in {"ready", "close"}
    /\ startup' = [startup EXCEPT !.destroys = DestroyAt(startup.j),
                                  !.j = @ + 1,
                                  !.pc = IF startup.j + 1 = NUM_WORKERS
                                         THEN "closed" ELSE "close"]
    /\ UNCHANGED connections
    /\ UNCHANGED beside_pool

PoolInit ==
    /\ CacheInit(RaceKeys, VOID) /\ IndexerState(FALSE, FALSE, "fresh")
    /\ ServerOff /\ RasterState /\ CleanerOff /\ PagesOff
    /\ PoolState("create")

PoolNext ==
    \/ \E created \in ConnAddrs \cup {NULL} : CreateStep(created)
    \/ \E survives \in BOOLEAN : UnwindStep(survives)
    \/ ExitFailure
    \/ CloseStep

SpecPool == PoolInit /\ [][PoolNext]_vars

(***************************************************************************)
(* Part VII.  The page tasks of src/cli.c.  walk_dir_callback has opened a *)
(* document and stored its files row; it allocates the counter and submits *)
(* one extract_pdf_pages task per page, and the threads of the pool run    *)
(* the tasks in any order.  A step is one access of the document or of the *)
(* counter.  An access of either after its release is undefined; the model *)
(* notes it in document.misuse and lets the run go on.                     *)
(***************************************************************************)

\* Variant: the walker gives up every page of the document.
Unsubmitted_All(npages, page) == npages

\* npages - page, line 346: the pages that will not be submitted.
Unsubmitted(npages, page) == npages - page

\* What atomic_fetch_sub(ref_count, n) returns: the value before; read from
\* a counter that is freed it is any value.
FetchSub(n) ==
    IF document.ref_count = "live" THEN {document.value} ELSE {0, 1, n}

\* g_object_unref(doc) and free(ref_count), lines 50-51 and 347-348.
Release(d, who) ==
    [d EXCEPT !.doc = "released", !.unrefs = @ + 1,
              !.ref_count = "freed", !.frees = @ + 1, !.by = who,
              !.misuse = @ \/ d.doc # "open" \/ d.ref_count # "live"]

\* Lines 327-335: malloc of the counter and atomic_store(ref_count, npages).
AllocCounter(ok) ==
    /\ submitter.pc = "alloc"
    /\ IF ok
       THEN /\ document' = [document EXCEPT !.ref_count = "live",
                                            !.value = document.npages]
            /\ submitter' = [submitter EXCEPT !.pc = "submit"]
       ELSE /\ document' = [document EXCEPT !.doc = "released",
                                            !.unrefs = @ + 1,
                                            !.by = "walker"]
            /\ submitter' = [submitter EXCEPT !.pc = "stopped"]
    /\ UNCHANGED page_task
    /\ UNCHANGED beside_pages

\* A turn of the loop of lines 339-361 up to threadpool_submit, or up to the
\* atomic_fetch_sub of line 346 when malloc returns NULL.
Submit(ok) ==
    /\ submitter.pc = "submit"
    /\ IF ok
       THEN /\ page_task' = [page_task EXCEPT ![submitter.page] = "queued"]
            /\ submitter' =
                  [submitter EXCEPT !.page = @ + 1,
                                    !.pc = IF submitter.page + 1 = document.npages
                                           THEN "returned" ELSE "submit"]
            /\ UNCHANGED document
       ELSE \E old \in FetchSub(Unsubmitted(document.npages, submitter.page)) :
            /\ document' =
                  [document EXCEPT
                      !.value = old - Unsubmitted(document.npages, submitter.page),
                      !.misuse = @ \/ document.ref_count # "live"]
            /\ submitter' =
                  [submitter EXCEPT
                      !.pc = IF old = Unsubmitted(document.npages, submitter.page)
                             THEN "release" ELSE "stopped"]
            /\ UNCHANGED page_task
    /\ UNCHANGED beside_pages

\* Lines 347-350: the walker releases the document and the counter.
SubmitterRelease ==
    /\ submitter.pc = "release"
    /\ document' = Release(document, "walker")
    /\ submitter' = [submitter EXCEPT !.pc = "stopped"]
    /\ UNCHANGED page_task
    /\ UNCHANGED beside_pages

\* extract_pdf_pages, lines 57-60: poppler_document_get_page(pp->doc,
\* pp->page); found: it returns a page.
GetPageOfDoc(p, found) ==
    /\ page_task[p] = "queued"
    /\ page_task' = [page_task EXCEPT ![p] = IF found THEN "page" ELSE "leaving"]
    /\ document' = [document EXCEPT !.misuse = @ \/ document.doc # "open"]
    /\ UNCHANGED submitter
    /\ UNCHANGED beside_pages

\* extract_pdf_pages from line 63 to its last return, with the deferred
\* g_free(text) and g_object_unref(page), which run before the deferred
\* block of lines 46-54: the text of the page is read and stored.
ExtractPage(p) ==
    /\ page_task[p] = "page"
    /\ page_task' = [page_task EXCEPT ![p] = "leaving"]
    /\ document' = [document EXCEPT !.misuse = @ \/ document.doc # "open"]
    /\ UNCHANGED submitter
    /\ UNCHANGED beside_pages

\* Line 48: atomic_fetch_sub(pp->ref_count, 1) == 1; the task that is not the
\* last goes on to free(pp).
Decrement(p) ==
    /\ page_task[p] = "leaving"
    /\ \E old \in FetchSub(1) :
          /\ document' = [document EXCEPT
                              !.value = old - 1,
                              !.misuse = @ \/ document.ref_count # "live"]
          /\ page_task' = [page_task EXCEPT ![p] = IF old = 1 THEN "last"
                                                            ELSE "done"]
    /\ UNCHANGED submitter
    /\ UNCHANGED beside_pages

\* Lines 49-52: the last task releases the document and the counter.
TaskRelease(p) ==
    /\ page_task[p] = "last"
    /\ document' = Release(document, "task")
    /\ page_task' = [page_task EXCEPT ![p] = "done"]
    /\ UNCHANGED submitter
    /\ UNCHANGED beside_pages

PagesInit ==
    /\ CacheInit(RaceKeys, VOID) /\ IndexerState(FALSE, FALSE, "fresh")
    /\ ServerOff /\ RasterState /\ CleanerOff /\ PoolOff
    /\ \E npages \in 1..MaxTaskPages : PagesState("alloc", npages)

PagesNext ==
    \/ \E ok \in BOOLEAN : AllocCounter(ok)
    \/ \E ok \in BOOLEAN : Submit(ok)
    \/ SubmitterRelease
    \/ \E p \in PageIndexes, found \in BOOLEAN : GetPageOfDoc(p, found)
    \/ \E p \in PageIndexes : ExtractPage(p)
    \/ \E p \in PageIndexes : Decrement(p)
    \/ \E p \in PageIndexes : TaskRelease(p)

SpecPages == PagesInit /\ [][PagesNext]_vars

(***************************************************************************)
(* Claims about the cache.                                                 *)
(***************************************************************************)

\* C1: under any interleaving, a get(k) that starts after a set(k, v) has
\* returned, with the entry unexpired and no invalidate(k), clear or eviction
\* of k requested since, returns v (or the value of a later set), never a miss.
\* last.want is expect[k] as it was when the get started.
C1_GetSeesCompletedSet ==
    (last.op = "get" /\ last.want # None)
        => (last.ok /\ last.val = Some(last.want[1].val))

\* A get that started after a completed set of its key and hit.
C1_Witness == last.op = "get" /\ last.want # None /\ last.ok

\* The entries that are allocated.
Stored(c) == {a \in EntryAddrs : c.ent[a].live}

\* C2: after any sequence of calls the number of stored entries is at most the
\* capacity and no two stored entries have the same key.
C2_BoundedUniqueKeys ==
    /\ cache.size <= Capacity
    /\ Cardinality(Stored(cache)) <= Capacity
    /\ \A a, b \in Stored(cache) : a # b => cache.ent[a].key # cache.ent[b].key

\* A set of a new key into a full cache has completed.
C2_Witness ==
    last.op = "set" /\ last.ok /\ last.path = "evict" /\ cache.size = Capacity

\* C3: a response_cache_set that returns failure leaves the entries, their
\* values, expiry times and recency order as they were.
C3_FailedSetChangesNothing ==
    [][(last'.op = "set" /\ ~last'.ok) => ListView(cache') = ListView(cache)]_vars

\* C4: a get that reports a hit returns an entry with now < expires_at; a get of
\* an entry whose time has run out reports a miss and removes the entry.
C4_HitsAreUnexpired ==
    [][last'.op = "get" =>
        LET k == last'.key
            e == Lookup(cache, k)
        IN  /\ last'.ok => (e # NULL /\ now < cache.ent[e].expires_at)
            /\ (e # NULL /\ now >= cache.ent[e].expires_at)
                  => (~last'.ok /\ Lookup(cache', k) = NULL)]_vars

\* Two seconds on, the get of an expired entry has missed and removed it.
C4_Witness ==
    /\ last.op = "get" /\ last.path = "expired" /\ ~last.ok
    /\ now >= 2
    /\ Lookup(cache, last.key) = NULL

\* C5: the list is in the order of the most recent get-hit or set of each key,
\* and a set of a new key into a full cache removes exactly the key whose last
\* get-hit or set is the oldest.
C5_EvictsLeastRecentlyUsed ==
    [][/\ KeysOf(ListView(cache')) = recency'
       /\ (/\ last'.op = "set" /\ last'.ok
           /\ last'.key \notin KeySet(ListView(cache))
           /\ Len(ListView(cache)) >= Capacity)
              => KeysOf(ListView(cache')) =
                    <<last'.key>> \o SubSeq(recency, 1, Len(recency) - 1)]_vars

\* A set has evicted while the key used least recently was not the one stored
\* first: a get or a second set had refreshed the older key.
C5_Witness ==
    /\ last.op = "set" /\ last.ok /\ last.path = "evict"
    /\ Len(recency) = Capacity
    /\ cache.ent[cache.tail].expires_at > cache.ent[cache.head].expires_at

\* C6: a set of a key that is stored updates the entry in place: same entry,
\* same count, expiry now + ttl, the key most recently used, and a get of the
\* key then returns the new bytes with their length.
C6_SetUpdatesInPlace ==
    [][(last'.op = "set" /\ last'.ok /\ Lookup(cache, last'.key) # NULL) =>
        LET k == last'.key
            e == Lookup(cache, k)
            g == response_cache_get(cache', k, now, FALSE)
        IN  /\ Lookup(cache', k) = e
            /\ cache'.size = cache.size
            /\ cache'.ent[e].expires_at = now + TtlOf(last'.ttl)
            /\ cache'.head = e
            /\ g.res = "hit" /\ g.buf = last'.val
            /\ cache'.ent[e].value_len = Len(last'.val[1])]_vars

\* A set has replaced the value of an entry that was not the most recent one.
C6_Witness ==
    /\ last.op = "set" /\ last.ok /\ last.path = "update"
    /\ cache.size = Capacity
    /\ cache.ent[cache.head].value # cache.ent[cache.tail].value

\* C7: every get returns what it returns in the reference cache, which loses
\* each entry at the instant it expires.
C7_ExpiredObservationallyAbsent ==
    (last.op = "get" /\ ~last.refres.void) => last.val = last.refres.val

C9_KeyLengthLimit ==
    /\ (last.op = "set" /\ Strlen(last.key) >= 256) => ~last.ok
    /\ (last.op = "set" /\ Strlen(last.key) = 255 /\ ~last.oom) =>
          LET e == Lookup(cache, last.key)
          IN  /\ last.ok
              /\ e # NULL
              /\ Bytes[cache.ent[e].key] = Bytes[last.key]
              /\ Len(Bytes[cache.ent[e].key]) = 255
              /\ response_cache_get(cache, last.key, now, FALSE).res = "hit"

\* The 255-byte key is stored, and a set with the 256-byte key has just failed.
C9_Witness ==
    /\ last.op = "set" /\ last.key = Key256 /\ ~last.ok
    /\ Lookup(cache, Key255) # NULL

\* The addresses met from entry e on along the links of the field given, at
\* most fuel of them.
RECURSIVE Walk(_, _, _, _)
Walk(c, e, field, fuel) ==
    IF e = NULL \/ fuel = 0 THEN <<>>
    ELSE <<e>> \o Walk(c, c.ent[e][field], field, fuel - 1)

\* The recency list from head to tail, and the chain of bucket b.
ListOf(c) == Walk(c, c.head, "next", Capacity + 2)
ChainOf(c, b) == Walk(c, c.buckets[b], "hash_next", Capacity + 2)

Members(path) == {path[i] : i \in 1..Len(path)}
Once(path) == Cardinality(Members(path)) = Len(path)

\* C34: after any sequence of set, get, invalidate and clear the recency
\* list and the hash buckets hold the same entries: each entry of a bucket
\* chain is once in the list from head to tail and the reverse, prev and next
\* agree with each other, head has no prev and tail no next, and size is the
\* number of these entries.
C34_ListAndBucketsAgree ==
    LET list == ListOf(cache)
        Buckets == DOMAIN cache.buckets
        chained == UNION {Members(ChainOf(cache, b)) : b \in Buckets}
    IN
    /\ Once(list)
    /\ \A b \in Buckets : Once(ChainOf(cache, b))
    /\ \A a, b \in Buckets :
          a # b => Members(ChainOf(cache, a)) \cap Members(ChainOf(cache, b)) = {}
    /\ \A b \in Buckets : \A e \in Members(ChainOf(cache, b)) :
          cache.ent[e].live /\ bucket_idx(cache.ent[e].key) = b
    /\ chained = Members(list)
    /\ Members(list) = {e \in EntryAddrs : cache.ent[e].live}
    /\ cache.size = Len(list)
    /\ \A i \in 1..Len(list) :
          /\ cache.ent[list[i]].prev = (IF i = 1 THEN NULL ELSE list[i - 1])
          /\ cache.ent[list[i]].next = (IF i = Len(list) THEN NULL ELSE list[i + 1])
    /\ cache.head = (IF list = <<>> THEN NULL ELSE list[1])
    /\ cache.tail = (IF list = <<>> THEN NULL ELSE list[Len(list)])

\* A get has hit in a full cache, its entry is at the front of the list, and
\* two entries share a bucket.
C34_Witness ==
    /\ last.op = "get" /\ last.ok
    /\ cache.size = Capacity
    /\ cache.head # NULL /\ cache.ent[cache.head].key = last.key
    /\ \E b \in DOMAIN cache.buckets : Len(ChainOf(cache, b)) > 1

(***************************************************************************)
(* Claims about the indexer.                                               *)
(***************************************************************************)

\* C10: every file row is inserted while the walker's transaction is open;
\* the transaction is not ended while a submitted task is still to finish;
\* and it is ended by COMMIT only if no task has failed, by ROLLBACK only if
\* success is false.
C10_WalkerTransactionWrapsRun ==
    /\ \A d \in Docs : inserted_in[d] \in {"never", "open"}
    /\ main_tx \in {"COMMIT", "ROLLBACK"} =>
          \A d \in Docs : task[d].st \in {"none", "done"}
    /\ main_tx = "COMMIT" => \A d \in Docs : ~task[d].failed
    /\ main_tx = "ROLLBACK" => ~success

\* A task has failed after the walker's transaction was committed, and the
\* file row of its document is stored.
C10_Witness ==
    /\ main_tx = "COMMIT"
    /\ \E d \in Docs :
          task[d].failed /\ files[d] = "stored" /\ inserted_in[d] = "COMMIT"

\* C11: once the run is over, the value process_pdfs returned is true only
\* if no task has recorded a failure, and false only if success is false.
C11_ReturnReflectsAllTasks ==
    (mpc \in {"done", "exited"} /\ retval # None) =>
        /\ retval = Some(TRUE) => \A d \in Docs : ~task[d].failed
        /\ retval = Some(FALSE) => ~success

\* The run is over, a task has failed and process_pdfs has returned false.
C11_Witness ==
    /\ mpc = "done" /\ retval = Some(FALSE)
    /\ \E d \in Docs : task[d].failed /\ task[d].st = "done"

\* pages had a row (id, p) before the run.
PriorRow(id, p) ==
    \E r \in PriorDb(history).pages : r.file_id = id /\ r.page_num = p

\* The pages the task of d has written rows for: its successful inserts that
\* met no row of an earlier run.
Wrote(d) ==
    {p \in 1..Len(task[d].log) :
        task[d].log[p] = "inserted" /\ ~PriorRow(task[d].file_id, p)}

\* The row (id, p) of pages: "absent", "pending" or "stored".
RowState(id, p) ==
    IF \E r \in db.pages : r.file_id = id /\ r.page_num = p
    THEN (CHOOSE r \in db.pages : r.file_id = id /\ r.page_num = p).st
    ELSE "absent"

\* No page the task of d has come to had an error.
PagesClean(d) ==
    \A p \in 1..Len(task[d].log) : task[d].log[p] \in {"inserted", "no_text"}

\* C12: the defer of a task issues COMMIT exactly when no page of the
\* document had an error and ROLLBACK otherwise; the rows the task wrote are
\* invisible while its transaction is open, all stored after its COMMIT and
\* all gone after a ROLLBACK.
C12_TaskTransactionAllOrNone ==
    \A d \in Docs :
        /\ task[d].end_cmd # "none" => (task[d].end_cmd = "COMMIT" <=> PagesClean(d))
        /\ task[d].tx = "COMMIT" => PagesClean(d)
        /\ task[d].tx = "open" =>
              \A p \in Wrote(d) : RowState(task[d].file_id, p) = "pending"
        /\ task[d].tx = "COMMIT" =>
              \A p \in Wrote(d) : RowState(task[d].file_id, p) = "stored"
        /\ task[d].tx = "ROLLBACK" =>
              \A p \in Wrote(d) : RowState(task[d].file_id, p) = "absent"

\* A task has written a page, met an error on another and rolled back.
C12_Witness ==
    \E d \in Docs :
        /\ task[d].tx = "ROLLBACK" /\ task[d].end_cmd = "ROLLBACK"
        /\ Wrote(d) # {}

\* The task of d has come to all its pages and exactly one insert failed,
\* with no other error.
SingleInsertFailure(d) ==
    /\ Len(task[d].log) = task[d].npages
    /\ Cardinality({p \in 1..Len(task[d].log) : task[d].log[p] = "insert_failed"}) = 1
    /\ \A p \in 1..Len(task[d].log) : task[d].log[p] # "no_page"

\* C13: a task one of whose page inserts failed still commits the pages that
\* succeeded, and when nothing else has failed success is still true.
C13_PageFailureTolerated ==
    \A d \in Docs :
        (/\ task[d].st \in {"close", "done"}
         /\ SingleInsertFailure(d)
         /\ ~task[d].end_failed) =>
            /\ task[d].tx = "COMMIT"
            /\ \A p \in Wrote(d) : RowState(task[d].file_id, p) = "stored"
            /\ (/\ mpc = "walk" /\ walk \in Docs
                /\ \A e \in Docs \ {d} : ~task[e].failed) => success

\* A task with two pages has finished: the insert of one failed, the other
\* was written.
C13_Witness ==
    \E d \in Docs :
        /\ task[d].st = "done"
        /\ SingleInsertFailure(d)
        /\ Wrote(d) # {}

\* C14: when a task is over, success is false if the document did not open,
\* its page count did not match, a page fetch or page insert failed, or its
\* COMMIT failed.
C14_EveryTaskFailureClearsSuccess ==
    \A d \in Docs :
        (/\ task[d].st \in {"close", "done"}
         /\ \/ task[d].failed
            \/ ~PagesClean(d)
            \/ (task[d].end_cmd = "COMMIT" /\ task[d].end_failed)) => ~success

\* A task whose document did not open or whose pages had an error is over,
\* and success is false.
C14_Witness ==
    \E d \in Docs :
        task[d].st = "done" /\ task[d].failed /\ ~task[d].end_failed /\ ~success

\* C15: whatever other tasks have done, while entries remain the walker
\* can insert the next file and submit its task, a free worker can start a
\* waiting task, and a task whose own pages had no error can commit.
C15_FailuresDoNotStopOthers ==
    /\ (mpc = "walk" /\ walk \in Docs /\ ~dryrun) =>
          ENABLED (WalkCallback(TRUE, TRUE) /\ task'[walk].st = "queued")
    /\ \A w \in Workers :
          (worker[w] = NULL /\ queue # <<>>) => ENABLED TaskStart(w)
    /\ \A w \in Workers :
          (worker[w] # NULL /\ task[worker[w]].st = "end" /\ PagesClean(worker[w])) =>
              ENABLED (TaskEnd(w, TRUE) /\ task'[worker[w]].tx = "COMMIT")

\* One task has failed and rolled back, the walker has gone on to the end of
\* the directory, and a task submitted behind the failed one has committed.
C15_Witness ==
    \E d, e \in Docs :
        /\ d < e
        /\ task[d].failed /\ task[d].st = "done"
        /\ task[e].tx = "COMMIT"
        /\ ~success

\* C16: the index command exits with status 0 only when process_pdfs
\* reported success, and with another status when it reported failure.
C16_ExitStatusReportsFailure ==
    exit_status # None => (exit_status = Some(0) <=> retval = Some(TRUE))

\* The walker could not insert a file record, process_pdfs has returned
\* false and the command has exited.
C16_Witness ==
    /\ exit_status # None
    /\ retval = Some(FALSE)
    /\ \E d \in Docs : task[d].st = "none" /\ walk = NumDocs + 1 /\ ~dryrun

\* The stored rows of pages with file_id id.
StoredPages(id) == {r \in db.pages : r.file_id = id /\ r.st = "stored"}

\* C17: once the task of a document has committed, pages has at most
\* num_pages rows of its file_id, each with page_num in 1..num_pages.
C17_PageRowsWithinPageCount ==
    \A d \in Docs :
        task[d].tx = "COMMIT" =>
            /\ Cardinality(StoredPages(db.ids[d])) <= db.num_pages[d]
            /\ \A r \in StoredPages(db.ids[d]) : r.page_num \in 1..db.num_pages[d]

\* A document indexed before with the same number of pages has been indexed
\* again and its task has committed.
C17_Witness ==
    \E d \in Docs :
        /\ history = "same"
        /\ task[d].tx = "COMMIT"
        /\ Cardinality(StoredPages(db.ids[d])) = db.num_pages[d]

\* The corpus a reader of the database sees: the file records (id, path)
\* and the page records (file_id, page_num, text).
Corpus(dbs, fs) ==
    [files |-> {[id |-> dbs.ids[d], path |-> d] : d \in {e \in Docs : fs[e] = "stored"}},
     pages |-> {[file_id |-> r.file_id, page_num |-> r.page_num, text |-> r.text] :
                  r \in {q \in dbs.pages : q.st = "stored"}}]

\* C18: during and after a run over a directory that an earlier run has
\* indexed and that has not changed, the corpus is what the earlier run
\* left, with one record per file and one per page.
C18_ReindexLeavesCorpus ==
    history = "same" =>
        /\ Corpus(db, files) = Corpus(PriorDb("same"), PriorFiles("same"))
        /\ \A d, e \in Docs : d # e => db.ids[d] # db.ids[e]
        /\ \A r, q \in db.pages :
              (r.file_id = q.file_id /\ r.page_num = q.page_num) => r = q

\* The second run over the directory is over and every task has committed.
C18_Witness ==
    /\ history = "same"
    /\ mpc = "done"
    /\ \A d \in Docs : task[d].tx = "COMMIT" /\ PagesClean(d)

\* C19: a handle is used only by the thread that created it; the tasks
\* have handles of their own, distinct from one another and from the
\* walker's, open while the task runs and destroyed when it is over.
C19_HandlesNotShared ==
    /\ \A h \in HandleIds :
          /\ conns[h].users.main => conns[h].by.main
          /\ conns[h].users.tasks \subseteq conns[h].by.tasks
          /\ Cardinality(conns[h].users.tasks) <= 1
          /\ ~(conns[h].users.main /\ conns[h].users.tasks # {})
    /\ \A d \in Docs :
          /\ task[d].st \in {"open", "begin", "pages", "end", "close"} =>
                /\ conns[task[d].conn].st = "open"
                /\ conns[task[d].conn].by = TaskThread(d)
          /\ task[d].st = "done" => conns[task[d].conn].st = "destroyed"
    /\ \A d, e \in Docs :
          (d # e /\ task[d].conn # NULL /\ task[e].conn # NULL) =>
              task[d].conn # task[e].conn

\* Two tasks run at once, each with statements issued on its handle, while
\* the walker's handle is open.
C19_Witness ==
    \E d, e \in Docs :
        /\ d # e
        /\ task[d].st = "pages" /\ task[e].st = "pages"
        /\ conns[task[d].conn].users = TaskThread(d)
        /\ conns[task[e].conn].users = TaskThread(e)
        /\ main_conn = "open"

\* C20: in a dryrun nothing is written: files and pages stay as they were,
\* no transaction is begun, no statement is issued on any handle, no task is
\* submitted, and each callback moves the walk to the next entry.
C20_DryrunWritesNothing ==
    [][dryrun =>
        /\ files' = PriorFiles(history) /\ db' = PriorDb(history)
        /\ main_tx' = "none"
        /\ \A h \in HandleIds : conns'[h].users = Nobody
        /\ queue' = <<>>
        /\ \A d \in Docs : task'[d].st = "none"
        /\ walk' # walk => walk' = walk + 1]_vars

\* A dryrun has walked the whole directory and returned.
C20_Witness ==
    dryrun /\ mpc = "done" /\ walk = NumDocs + 1 /\ retval = Some(TRUE)

\* The statements that end a transaction.
EndStmts == {"COMMIT", "ROLLBACK"}

\* The operations of one task are in order: BEGIN first; the page inserts after
\* it, page numbers ascending; one end of the transaction after these, and one
\* ROLLBACK more after an end that failed; the close last, right after the
\* end of the transaction or alone.
InOrder(ops) ==
    \A i \in 1..Len(ops) :
        /\ ops[i].stmt = "BEGIN" => i = 1
        /\ ops[i].stmt = "INSERT" =>
              /\ i > 1
              /\ \/ ops[i - 1].stmt = "BEGIN"
                 \/ ops[i - 1].stmt = "INSERT" /\ ops[i - 1].page < ops[i].page
        /\ ops[i].stmt \in EndStmts =>
              /\ i > 1
              /\ \/ ops[i - 1].stmt \in {"BEGIN", "INSERT"}
                 \/ /\ ops[i - 1].stmt \in EndStmts /\ ~ops[i - 1].ok
                    /\ ops[i].stmt = "ROLLBACK"
                    /\ ops[i - 2].stmt \notin EndStmts
        /\ ops[i].stmt = "close" =>
              /\ i = Len(ops)
              /\ i > 1 =>
                    /\ ops[i - 1].stmt \in EndStmts
                    /\ ~ops[i - 1].ok => ops[i - 2].stmt \in EndStmts

\* C35: within one worker task the storage operations come in this order on
\* every path: BEGIN, the page inserts in strictly ascending page_num, one
\* transaction end (COMMIT or ROLLBACK, and one more ROLLBACK if that
\* statement fails), then the close of the task's handle; a task that returns
\* before BEGIN ends no transaction; and no page of the document is visible
\* to other handles before the COMMIT.
C35_TaskOperationsInOrder ==
    \A d \in Docs :
        /\ InOrder(task[d].ops)
        /\ task[d].st = "done" =>
              /\ task[d].ops # <<>>
              /\ task[d].ops[Len(task[d].ops)].stmt = "close"
        /\ task[d].st = "close" =>
              \/ task[d].ops = <<>>
              \/ task[d].ops[Len(task[d].ops)].stmt \in EndStmts
        /\ (task[d].file_id # NULL /\ task[d].tx # "COMMIT") =>
              StoredPages(task[d].file_id)
                  \subseteq PriorDb(history).pages

\* A task has inserted two pages, failed to commit, rolled back and closed
\* its handle, and another task has returned before its BEGIN.
C35_Witness ==
    \E d, e \in Docs :
        /\ task[d].st = "done"
        /\ Len(task[d].ops) = 6
        /\ task[d].ops[4].stmt = "COMMIT" /\ ~task[d].ops[4].ok
        /\ task[e].st = "done"
        /\ Len(task[e].ops) = 1

\* C36: the shared success flag is monotone during an index run: it starts
\* true, the walker and the workers only ever store false into it, and once
\* it is false no thread sets it back to true before process_pdfs returns.
C36_SuccessMonotone == (success = TRUE) /\ [][~success => ~success']_vars

\* The flag is false after a task has failed, and a task has committed its
\* pages and is done.
C36_Witness ==
    /\ ~success
    /\ \E d, e \in Docs :
          /\ task[d].failed /\ task[d].st = "done"
          /\ task[e].tx = "COMMIT" /\ task[e].st = "done"

(***************************************************************************)
(* Claims about the server.                                                *)
(***************************************************************************)

\* The responses to searches, with their place in sent.
Searches == {i \in 1..Len(sent) : sent[i].req.op = "search"}

\* C21: a search response is cached under the query and the file filter, so a
\* response that comes from the cache was computed for a request with the same
\* query and the same file_id (or, like it, none).
C21_SearchCacheKeyedByFilter ==
    \A i \in Searches :
        sent[i].cached =>
            \E j \in Searches :
                /\ j < i
                /\ ~sent[j].cached
                /\ sent[j].body = sent[i].body
                /\ sent[j].req.a = sent[i].req.a
                /\ sent[j].req.b = sent[i].req.b

\* A search within file 1 is answered, and then the search of the same query
\* in all files is answered from the cache.
C21_Witness ==
    /\ Len(sent) = 2
    /\ sent[1].req = [op |-> "search", a |-> Num(1), b |-> Num(1)]
    /\ sent[1].status = StatusOK /\ ~sent[1].cached
    /\ sent[2].req = [op |-> "search", a |-> Num(1), b |-> Absent]
    /\ sent[2].cached

\* The responses to searches that pdf_search built from a result set.
Built == {i \in Searches : sent[i].status = StatusOK /\ ~sent[i].cached}

\* The result set behind response i.
RowsBehind(i) == search_query(corpus, sent[i].req.a.n, sent[i].req.b)

\* C22: the results array holds one object for every row the search statement
\* returned (at most 100), in the order of the rows, and count is the size of
\* the array, whatever went into the context of the summary.
C22_ResultsHoldEveryRow ==
    \A i \in Built :
        LET rows == RowsBehind(i)
        IN  /\ sent[i].body.results = [k \in 1..Len(rows) |-> ResultObject(rows[k])]
            /\ sent[i].body.count = Len(sent[i].body.results)
            /\ Len(sent[i].body.results) <= SEARCH_LIMIT

\* A search of the library is answered: the statement returns 100 rows, and
\* the excerpts of the first 15 do not fit into the context.
C22_Witness ==
    \E i \in Built :
        /\ corpus = "library"
        /\ Len(RowsBehind(i)) = SEARCH_LIMIT
        /\ BuildResults(RowsBehind(i)).stopped

\* A context of context_len bytes made of the pieces ex: a header before each
\* snippet, both of the same row, the rows among the first 15 and ascending,
\* the header numbered as its row.
ContextOk(context_len, ex) ==
    /\ context_len <= MAX_CONTEXT_SIZE
    /\ Len(ex) % 2 = 0
    /\ \A k \in 1..Len(ex) :
          /\ ex[k].piece = (IF k % 2 = 1 THEN "header" ELSE "snippet")
          /\ ex[k].n = ex[k].row
          /\ ex[k].row \in 1..CONTEXT_RESULTS
          /\ k % 2 = 0 => ex[k].row = ex[k - 1].row
          /\ k > 2 => ex[k].row > ex[k - 2].row

\* C23: for every result set the context pdf_search assembles is at most
\* 30 KiB long and is made of excerpts of rows among the first 15, each behind
\* its header; and with zero rows, with a file_id filter or without an API key
\* the summary step is skipped and ai_summary is null.
C23_ContextBoundedAndSummarySkipped ==
    /\ \A h \in Handlers :
          handler[h].pc # "idle" =>
              /\ ContextOk(handler[h].context_len, handler[h].excerpts)
              /\ handler[h].context_len > 0
              /\ api_key /\ ~handler[h].req.b.given
    /\ \A i \in Built :
          LET rows == RowsBehind(i)
              built == BuildResults(rows)
          IN  /\ ContextOk(built.context_len, built.excerpts)
              /\ (Len(rows) = 0 \/ sent[i].req.b.given \/ ~api_key) =>
                     (sent[i].body.ai_summary = None /\ ~sent[i].outbound)

\* A search of the library waits for the upstream service with a context of
\* 14 excerpts, the 15th not fitting; and a search within a file has been
\* answered with rows and without a summary.
C23_Witness ==
    /\ \E h \in Handlers :
          /\ handler[h].pc = "ai_call"
          /\ Len(handler[h].excerpts) = 2 * (CONTEXT_RESULTS - 1)
          /\ BuildResults(search_query(corpus, handler[h].req.a.n,
                                        handler[h].req.b)).stopped
    /\ \E i \in Built :
          /\ sent[i].req.b.given /\ api_key
          /\ sent[i].body.count > 0
          /\ sent[i].body.ai_summary = None

StatusOfKind(r) ==
    IF r.req.op = "page" /\ r.req.b = Num(0) /\ r.cause = "missing"
    THEN StatusBadRequest
    ELSE CASE r.cause = "validation" -> StatusBadRequest
           [] r.cause = "missing" -> StatusNotFound
           [] r.cause \in {"storage", "raster"} -> StatusInternalServerError

\* C25: every error response has the status of its kind, 400 for a validation
\* failure, 404 for a missing file or page, 500 for a storage or raster
\* failure, and a body {"error": <message>}.
C25_StatusByErrorKind ==
    \A i \in 1..Len(sent) :
        sent[i].cause # "none" =>
            /\ sent[i].status = StatusOfKind(sent[i])
            /\ DOMAIN sent[i].body = {"error"}

\* The statement of a handler has failed, and the response is sent.
C25_Witness ==
    \E i \in 1..Len(sent) :
        /\ sent[i].cause = "storage"
        /\ sent[i].req = [op |-> "page", a |-> Num(1), b |-> Num(1)]
        /\ sent[i].status = StatusBadRequest

\* The responses of list_files that carry a list.
Lists == {i \in 1..Len(sent) : sent[i].req.op = "list" /\ sent[i].status = StatusOK}

\* C26: list_files reports a page of at least 1 (1 when the parameter is
\* absent) and a limit in 1..100: 10 when the parameter is absent, 25 when the
\* client sends less than 1, 100 when it sends more than 100, and else what it
\* sends; and has_prev = (page > 1), has_next = (page < total_pages).
C26_ListParametersClamped ==
    \A i \in Lists :
        LET r == sent[i].body
            page_str == sent[i].req.a
            limit_str == sent[i].req.b
        IN  /\ r.page >= 1
            /\ r.limit \in 1..100
            /\ ~page_str.given => r.page = 1
            /\ page_str.parses => r.page = (IF page_str.n < 1 THEN 1 ELSE page_str.n)
            /\ ~limit_str.given => r.limit = 10
            /\ limit_str.parses =>
                   r.limit = (IF limit_str.n < 1 THEN 25
                              ELSE IF limit_str.n > 100 THEN 100 ELSE limit_str.n)
            /\ r.has_prev = (r.page > 1)
            /\ r.has_next = (r.page < r.total_pages)

\* limit=0 has been answered with limit 25, and page=2&limit=999 with limit
\* 100 and a previous page.
C26_Witness ==
    /\ \E i \in Lists : sent[i].req.b = Num(0) /\ sent[i].body.limit = 25
    /\ \E i \in Lists :
          /\ sent[i].req.b = Num(999) /\ sent[i].body.limit = 100
          /\ sent[i].req.a = Num(2) /\ sent[i].body.has_prev

\* This step sends an error response.
SendsError ==
    /\ Len(sent') = Len(sent) + 1
    /\ sent'[Len(sent')].cause # "none"

C38_KeysNeverCoincide ==
    \A i \in 1..Len(sent) :
        sent[i].cached =>
            \E k \in 1..(i - 1) :
                /\ ~sent[k].cached
                /\ sent[k].body = sent[i].body
                /\ sent[k].req.op = sent[i].req.op
                /\ sent[i].req.op = "page" => sent[k].req = sent[i].req

\* The text of a page is answered from the cache to a request for a page
\* number that the key cannot tell from the number it was stored for.
C38_Witness ==
    \E i, k \in 1..Len(sent) :
        /\ k < i
        /\ sent[i].cached /\ sent[i].req.op = "page"
        /\ sent[k].req.op = "page" /\ ~sent[k].cached
        /\ sent[k].req.b = Num(1)
        /\ sent[i].req.b = Wide(1)
        /\ sent[i].body = sent[k].body

(***************************************************************************)
(* Claims about the raster adapter.                                        *)
(***************************************************************************)

\* Thread t is inside a call of the raster library.
InRaster(t) == render[t].pc # "idle"

\* C27: the mutex of the raster adapter serializes the raster calls of a
\* render, from the creation of the surface to the destruction of context and
\* surface: no two threads are inside such calls at the same time.
C27_RasterCallsSerialized ==
    \A t, u \in Threads : (InRaster(t) /\ InRaster(u)) => t = u

\* One thread draws its page under the mutex while another writes its PNG.
C27_Witness ==
    \E t, u \in Threads :
        /\ render[t].pc = "poppler_page_render" /\ cairo_mutex = t
        /\ render[u].pc = "cairo_surface_write_to_png_stream"

(***************************************************************************)
(* Claims about the text cleaner.                                          *)
(***************************************************************************)

\* The bytes of the sequence that starts with lead byte b in well-formed
\* UTF-8 (0 if b starts none).
SequenceLength(b) ==
    IF b <= 127 THEN 1
    ELSE IF b >= 194 /\ b <= 223 THEN 2
    ELSE IF b >= 224 /\ b <= 239 THEN 3
    ELSE IF b >= 240 /\ b <= 244 THEN 4
    ELSE 0

Continuation(b) == b >= 128 /\ b <= 191

\* A well-formed sequence starts at index i of s (Unicode, table 3-7).
WellFormedAt(s, i) ==
    LET n == SequenceLength(s[i]) IN
    /\ n > 0
    /\ i + n - 1 <= Len(s)
    /\ \A j \in (i + 1)..(i + n - 1) : Continuation(s[j])
    /\ s[i] = 224 => s[i + 1] >= 160
    /\ s[i] = 237 => s[i + 1] <= 159
    /\ s[i] = 240 => s[i + 1] >= 144
    /\ s[i] = 244 => s[i + 1] <= 143

\* The continuation byte at index i of s belongs to a sequence that starts
\* at most three bytes before it.
Continues(s, i) ==
    \E k \in 1..3 :
        /\ i - k >= 1
        /\ SequenceLength(s[i - k]) > k
        /\ \A j \in (i - k + 1)..(i - 1) : Continuation(s[j])

ValidUtf8(s) ==
    \A i \in 1..Len(s) :
        IF Continuation(s[i]) THEN Continues(s, i) ELSE WellFormedAt(s, i)

NoControlBytes(s) == \A i \in 1..Len(s) : s[i] < 32 => s[i] \in {9, 10, 13}

\* None of U+FFFD, U+200B, U+200C, U+200D, U+2060 in s.
NoArtifacts(s) ==
    \A i \in 1..(Len(s) - 2) :
        LET three == <<s[i], s[i + 1], s[i + 2]>> IN
        three \notin {<<239, 191, 189>>, <<226, 128, 139>>, <<226, 128, 140>>,
                      <<226, 128, 141>>, <<226, 129, 160>>}

CleanText(s) == ValidUtf8(s) /\ NoControlBytes(s) /\ NoArtifacts(s)

\* pdf_text_clean has returned.
Cleaned == clean.pc \in {"done", "inserted"}

\* C28: for every input and either value of remove_urls, the text that
\* pdf_text_clean leaves is valid UTF-8 or empty, has no control byte below
\* 0x20 other than tab, newline and carriage return, and has none of U+FFFD,
\* U+200B, U+200C, U+200D, U+2060.
C28_CleanedTextValid == Cleaned => CleanText(clean.result[1])

\* The cleaner was given a text that is not valid UTF-8 and holds one of the
\* characters to remove, and has left text.
C28_Witness ==
    /\ clean.pc = "done"
    /\ clean.pass = 1
    /\ ~ValidUtf8(clean.given)
    /\ ~NoArtifacts(clean.given)
    /\ clean.result # Some(<<>>)

\* C29: every page text handed to the page INSERT is at most 2046 bytes
\* long, whatever the length and the content of the extracted text: the
\* cleaner emits no byte from beyond the truncation point.
C29_InsertedTextWithinLimit ==
    clean.pc = "inserted" => Len(clean.result[1]) <= TOKENIZER_LIMIT

\* A page whose text was longer than the limit has been handed to the INSERT.
C29_Witness ==
    /\ clean.pc = "inserted"
    /\ Len(clean.given) > TOKENIZER_LIMIT
    /\ Len(clean.result[1]) <= TOKENIZER_LIMIT
    /\ clean.result # Some(<<>>)

\* C30: the cleaner is idempotent: applied to a text it has returned, with
\* either value of remove_urls, it returns that text unchanged.
C30_CleanIdempotent ==
    (clean.pc = "done" /\ clean.pass = 2) => clean.result = clean.first

\* The cleaner has been applied to a text it had returned and has returned it
\* unchanged.
C30_Witness ==
    /\ clean.pc = "done"
    /\ clean.pass = 2
    /\ clean.result = clean.first

\* The first call of pdf_text_clean on a text has returned.
CleanedOnce == clean.pc = "done" /\ clean.pass = 1

\* "Hello world\n\nfoo bar"
MixedTextExpected ==
    <<72, 101, 108, 108, 111, 32, 119, 111, 114, 108, 100, 10, 10, 102,
      111, 111, 32, 98, 97, 114>>

\* C31: pdf_text_clean with remove_urls = true, given 0x01, "Hello", U+FFFD,
\* "world", three spaces, "http://x.y)", three newlines, "foo", ten '-' and
\* " bar", leaves exactly "Hello world", two newlines, "foo bar" (20 bytes).
C31_MixedTextCleaned ==
    (CleanedOnce /\ clean.remove_urls /\ clean.given = MixedText)
        => clean.result = Some(MixedTextExpected)

\* The mixed text has been cleaned with remove_urls = true.
C31_Witness ==
    /\ CleanedOnce /\ clean.remove_urls /\ clean.given = MixedText
    /\ clean.result # Some(<<>>)

\* The text given starts with the line "References".
HasReferencesHeader(s) ==
    /\ Len(s) > Len(ReferencesHeader)
    /\ SubSeq(s, 1, Len(ReferencesHeader) + 1) = ReferencesHeader \o <<10>>

\* C32: for the block of 10 lines whose first line is "References" and whose
\* other lines each hold "et al." and "(2021)" the cleaner returns the empty
\* string, and a cleaned page of at least 100 bytes whose first line is
\* "References" is zeroed.
C32_ReferencePageZeroed ==
    (/\ CleanedOnce
     /\ HasReferencesHeader(clean.given)
     /\ clean.given = Block(CitationLine, <<10>>) \/ clean.write_pos >= 100)
        => clean.result = Some(<<>>)

\* A text that starts with the line "References" has been cleaned to more
\* than 100 bytes and zeroed.
C32_Witness ==
    /\ CleanedOnce
    /\ HasReferencesHeader(clean.given)
    /\ clean.write_pos > 100
    /\ clean.result = Some(<<>>)

\* Letters, with '-' and '.' between them, fewer than ten of these in all:
\* a text without a dash run and without anything else the cleaner removes.
DashedWords(s) ==
    /\ Len(s) >= 3
    /\ \A i \in 1..Len(s) : s[i] \in (97..122) \cup {45, 46}
    /\ s[1] \in 97..122 /\ s[Len(s)] \in 97..122
    /\ Cardinality({i \in 1..Len(s) : s[i] \in {45, 46}}) < 10

\* C33: the dash-run collapse removes runs of at least 10 '-' / '.' bytes
\* only: a '-' or '.' that begins no such run is copied and the text after it
\* is processed as usual, so words joined by fewer than ten '-' and '.' in
\* all are left as they are.
C33_OnlyDashRunsCollapse ==
    (CleanedOnce /\ DashedWords(clean.given)) => clean.result = Some(clean.given)

\* Words joined by a '-' or a '.', with more than ten bytes after it, have
\* been cleaned and left as they were.
C33_Witness ==
    /\ CleanedOnce
    /\ DashedWords(clean.given)
    /\ \E i \in 1..Len(clean.given) :
          clean.given[i] \in {45, 46} /\ i + 10 < Len(clean.given)
    /\ clean.result = Some(clean.given)

(***************************************************************************)
(* Claims about the connection pool.                                       *)
(***************************************************************************)

\* The worker indexes whose handle init_connections has created.
Created == {w \in WorkerIndexes : connections[w] # NULL}

\* C39: if creating the handle of worker index i fails, init_connections
\* destroys exactly the handles 0..i-1 it has created, each once, touches no
\* index outside [0, NUM_WORKERS), and exits with failure, for every i
\* including 0; on success NUM_WORKERS handles exist, one per worker index.
C39_FailedStartupUnwinds ==
    /\ startup.stray = 0
    /\ startup.pc # "crashed"
    /\ startup.pc = "exited" =>
           /\ Created = 0..(startup.i - 1)
           /\ \A w \in Created : startup.destroys[connections[w]] = 1
    /\ startup.pc = "ready" =>
           /\ Created = WorkerIndexes
           /\ \A w, x \in WorkerIndexes :
                  connections[w] = connections[x] => w = x
           /\ \A a \in ConnAddrs : startup.destroys[a] = 0

\* The handle of worker index 2 could not be created, and init_connections
\* has left through exit with the handle of index 0 destroyed once.
C39_Witness ==
    /\ startup.pc = "exited"
    /\ startup.i = 2
    /\ startup.destroys[connections[0]] = 1

(***************************************************************************)
(* Claims about the page tasks.                                            *)
(***************************************************************************)

\* The submitted tasks that have not finished with the document and the
\* counter.
Unfinished == {p \in PageIndexes : page_task[p] \notin {"none", "done"}}

Submitting == submitter.pc \in {"alloc", "submit", "release"}

\* C40: the shared document and its counter are released exactly once, and
\* only after every submitted page task has finished using the document,
\* under every interleaving of the tasks with the walker, a failure to
\* allocate a task's parameters partway through the submission included:
\* neither is released twice or accessed after its release; a task that is
\* about to use the document, or uses it, finds it open; and when the walker
\* has returned and every task is done, the document has been released once
\* and the counter, if it was allocated, freed once.
C40_DocumentReleasedOnce ==
    /\ document.unrefs <= 1 /\ document.frees <= 1
    /\ ~document.misuse
    /\ \A p \in PageIndexes :
           page_task[p] \in {"queued", "page"} => document.doc = "open"
    /\ \A p \in PageIndexes :
           page_task[p] \in {"queued", "page", "leaving"} =>
               document.ref_count = "live"
    /\ (~Submitting /\ Unfinished = {}) =>
           /\ document.unrefs = 1 /\ document.doc = "released"
           /\ document.ref_count \in {"none", "freed"}
           /\ document.ref_count = "freed" <=> document.frees = 1

\* The allocation of the parameters of the second page has failed while the
\* task of the first page was still at work, and that task has then released
\* the document and the counter.
C40_Witness ==
    /\ submitter.pc = "stopped" /\ submitter.page = 1
    /\ document.npages = MaxTaskPages
    /\ page_task[0] = "done"
    /\ document.by = "task"
    /\ document.unrefs = 1 /\ document.frees = 1

====
